---- MODULE Spec2Model ----
(***************************************************************************)
(* Model of the statistics engine of pokemon-mcp-server                    *)
(* (servers/statistics-server): the in-memory table STATISTICS and the     *)
(* tools that query it.  Every tool call is one action; its outcome is     *)
(* left in the variable result until call_tool has returned it.  The tools *)
(* contain no await, so a call runs to completion before the next starts.  *)
(*                                                                         *)
(* Encoding of pandas / Python values:                                     *)
(*   - a row is a record; the table df is a sequence of rows in CSV order; *)
(*   - a missing string cell is NaN, a missing numeric cell is NaNNum;     *)
(*     every comparison with a missing cell is FALSE, as in pandas;        *)
(*   - a type multiplier m is stored as the integer 4*m (0.25 -> 1,        *)
(*     0.5 -> 2, 1 -> 4, 2 -> 8, 4 -> 16), so 3 is 0.75 and 12 is 3.0;     *)
(*   - an arguments dict is a function whose DOMAIN is the set of keys     *)
(*     given, so arguments.get(k) is None exactly when k is not in DOMAIN; *)
(*   - floats are exact rationals [num, den].                              *)
(***************************************************************************)
EXTENDS Integers, Sequences, FiniteSets, TLC

VARIABLES df, result, _SORTED_CACHE, address, calls

vars == <<df, result, _SORTED_CACHE, address, calls>>

(***************************************************************************)
(* Bounds of the model.                                                    *)
(***************************************************************************)
MaxRows == 3
MaxOptions == 2
MaxAddresses == 2
MaxCallers == 2

NaN == "<NaN>"
NaNNum == -1

(***************************************************************************)
(* Generic helpers.                                                        *)
(***************************************************************************)
RECURSIVE GCD(_, _)
GCD(a, b) == IF b = 0 THEN a ELSE GCD(b, a % b)

Abs(a) == IF a < 0 THEN -a ELSE a

Min2(a, b) == IF a <= b THEN a ELSE b
Max2(a, b) == IF a >= b THEN a ELSE b

RECURSIVE SumSeq(_)
SumSeq(s) == IF s = <<>> THEN 0 ELSE Head(s) + SumSeq(Tail(s))

Range(s) == {s[i] : i \in DOMAIN s}

\* all orderings (without repetition) of the elements of the finite set S
Orderings(S) ==
  {p \in [1..Cardinality(S) -> S] : \A i, j \in 1..Cardinality(S) : i # j => p[i] # p[j]}

\* str.lower() on the strings that occur in the model
LowerMap ==
  [s \in {"Pika", "Gyara", "Mewtwo", "Glitch", "Electric", "WATER", "Static", "STATIC",
          "Levitate", "Intimidate", "Pressure", "PIKA", "MEWTWO"} |->
     CASE s = "Pika" -> "pika"
       [] s = "Gyara" -> "gyara"
       [] s = "Mewtwo" -> "mewtwo"
       [] s = "Glitch" -> "glitch"
       [] s = "Electric" -> "electric"
       [] s = "WATER" -> "water"
       [] s = "Static" -> "static"
       [] s = "Levitate" -> "levitate"
       [] s = "Intimidate" -> "intimidate"
       [] s = "Pressure" -> "pressure"
       [] s = "STATIC" -> "static"
       [] s = "PIKA" -> "pika"
       [] s = "MEWTWO" -> "mewtwo"]

Lower(s) == IF s \in DOMAIN LowerMap THEN LowerMap[s] ELSE s

(***************************************************************************)
(* The 18 types of get_resistances_and_weaknesses.ALL_TYPES, and the       *)
(* against_<type> column suffixes a CSV can carry: pokemon_helper's        *)
(* get_type_matchups names the fighting column against_fight.              *)
(***************************************************************************)
ALL_TYPES ==
  <<"bug", "dark", "dragon", "electric", "fairy", "fighting", "fire", "flying", "ghost",
    "grass", "ground", "ice", "normal", "poison", "psychic", "rock", "steel", "water">>

types ==
  <<"bug", "dark", "dragon", "electric", "fairy", "fight", "fire", "flying", "ghost",
    "grass", "ground", "ice", "normal", "poison", "psychic", "rock", "steel", "water">>

stats_cols == <<"hp", "attack", "defense", "sp_attack", "sp_defense", "speed">>

\* multipliers of a row: neutral (4 = 1.0) except the overrides given
Against(over) ==
  [t \in Range(ALL_TYPES) |-> IF t \in DOMAIN over THEN over[t] ELSE 4]

\* an abilities cell: the text "['Static', 'Levitate']" is kept as the list
\* ast.literal_eval reads from it; isna marks an empty cell
Abilities(list) == [isna |-> FALSE, text |-> list]
NoAbilities == [isna |-> TRUE, text |-> <<>>]

Row(name, t1, t2, st, w, h, gen, leg, cap, abil, over) ==
  [name |-> name, type1 |-> t1, type2 |-> t2,
   hp |-> st[1], attack |-> st[2], defense |-> st[3],
   sp_attack |-> st[4], sp_defense |-> st[5], speed |-> st[6],
   base_total |-> SumSeq(st),
   weight_kg |-> w, height_m |-> h, generation |-> gen, is_legendary |-> leg,
   capture_rate |-> cap, abilities |-> abil, against |-> Against(over)]

(***************************************************************************)
(* The rows a CSV of the model can contain.  "Pika" and "pika" differ in   *)
(* case only and have equal stats; Glitch carries multipliers outside      *)
(* {0, 0.25, 0.5, 1, 2, 4}, which the loader does not reject.              *)
(***************************************************************************)
Pokedex ==
  { Row("Pika", "electric", NaN, <<50, 50, 50, 50, 50, 70>>, 6, 4, 1, 0, 190,
        Abilities(<<"Static", "Levitate">>),
        [ground |-> 8, electric |-> 2, flying |-> 2, steel |-> 2]),
    Row("pika", "electric", NaN, <<50, 50, 50, 50, 50, 70>>, 6, 4, 1, 0, 190,
        Abilities(<<"Static">>),
        [fighting |-> 8, ghost |-> 0]),
    Row("Gyara", "water", "flying", <<100, 100, 50, 50, 100, 50>>, 235, 65, 1, 0, 45,
        Abilities(<<"Intimidate">>),
        [electric |-> 16, rock |-> 8, ground |-> 0, fire |-> 1, water |-> 2,
         fighting |-> 2, bug |-> 1, steel |-> 2]),
    Row("Mewtwo", "psychic", "electric", <<100, 150, 100, 150, 50, 60>>, 122, 20, 1, 1, 3,
        Abilities(<<"Pressure">>),
        [bug |-> 8, dark |-> 8, ghost |-> 8, fighting |-> 2, psychic |-> 2]),
    Row("Glitch", "fighting", "steel", <<50, 50, 50, 50, 50, 50>>, NaNNum, NaNNum, 2, 0, 45,
        NoAbilities,
        [fire |-> 3, ice |-> 12, ghost |-> 0, water |-> 32]) }

\* the same row in a CSV whose fighting column is named against_fight
RenameFight(row) ==
  [row EXCEPT !.against =
     [t \in Range(types) |-> IF t = "fight" THEN row.against["fighting"] ELSE row.against[t]]]

\* tables: the orderings of up to MaxRows distinct rows, under either naming
RowSets == {S \in SUBSET Pokedex : Cardinality(S) <= MaxRows}

Tables ==
  UNION {Orderings(S) : S \in RowSets}
  \cup UNION {{[i \in DOMAIN p |-> RenameFight(p[i])] : p \in Orderings(S)} : S \in RowSets}

(***************************************************************************)
(* Access to the table.  A table without rows is the pd.DataFrame() that   *)
(* _load_statistics returns on failure: it has no columns, and reading a   *)
(* column of it raises KeyError.                                           *)
(***************************************************************************)
n_rows(d) == Len(d)

HasColumns(d) == Len(d) > 0

\* filtered_df = df: the working frame is the frame bound to STATISTICS
no_copy(d) == [frame |-> d, shares_data |-> TRUE]

\* df.copy(): the working frame is a frame of its own
copy(d) == [frame |-> d, shares_data |-> FALSE]

\* working[col] = values, as the frame bound to STATISTICS sees it: a column
\* appears in it only when the working frame is that same frame
setitem(d, working, col) ==
  IF working.shares_data
  THEN [i \in DOMAIN d |->
          [f \in DOMAIN d[i] \cup {col} |-> IF f = col THEN "derived" ELSE d[i][f]]]
  ELSE d

Raised(op, args) == [op |-> op, args |-> args, kind |-> "raise"]

Idle == [op |-> "none", args |-> <<>>, kind |-> "none"]

(***************************************************************************)
(* filter_pokemon_multi_criteria                                           *)
(***************************************************************************)
Given(arguments, key) == key \in DOMAIN arguments

\* df[col] >= value and df[col] <= value on one cell (False on a missing cell)
series_ge_strict(cell, value) == cell # NaNNum /\ cell > value

series_ge(cell, value) == cell # NaNNum /\ cell >= value

series_le(cell, value) == cell # NaNNum /\ cell <= value

\* df[col].str.lower() == value on one cell
series_str_eq(cell, value) == cell # NaN /\ Lower(cell) = value

parse_abilities(abilities_str) ==
  IF abilities_str.isna THEN <<>> ELSE abilities_str.text

has_ability(abilities_str, target_abilities) ==
  \E i \in DOMAIN parse_abilities(abilities_str) :
     Lower(parse_abilities(abilities_str)[i]) \in {Lower(ta) : ta \in Range(target_abilities)}

stat_filters ==
  << <<"hp", "min_hp", "max_hp">>,
     <<"attack", "min_attack", "max_attack">>,
     <<"defense", "min_defense", "max_defense">>,
     <<"sp_attack", "min_sp_attack", "max_sp_attack">>,
     <<"sp_defense", "min_sp_defense", "max_sp_defense">>,
     <<"speed", "min_speed", "max_speed">>,
     <<"base_total", "min_base_total", "max_base_total">> >>

\* the keys whose branch `mask &= ...` is taken, in the order of the code
MaskKeyOrder ==
  <<"type1", "type2", "min_hp", "max_hp", "min_attack", "max_attack", "min_defense",
    "max_defense", "min_sp_attack", "max_sp_attack", "min_sp_defense", "max_sp_defense",
    "min_speed", "max_speed", "min_base_total", "max_base_total", "min_weight_kg",
    "max_weight_kg", "min_height_m", "max_height_m", "generation", "is_legendary",
    "min_capture_rate", "abilities">>

\* the guard of each branch: `if type1:` and `if abilities_filter:` test
\* truthiness, the others test `is not None`
BranchTaken(arguments, key) ==
  /\ Given(arguments, key)
  /\ key \in {"type1", "type2"} => arguments[key] # ""
  /\ key = "abilities" => arguments[key] # <<>>

applied_filters(arguments) ==
  SelectSeq(MaskKeyOrder, LAMBDA key : BranchTaken(arguments, key))

\* the value of mask for one row after all `mask &= ...` statements
mask(arguments, row) ==
  /\ BranchTaken(arguments, "type1") =>
       series_str_eq(row.type1, Lower(arguments["type1"]))
  /\ BranchTaken(arguments, "type2") =>
       series_str_eq(row.type2, Lower(arguments["type2"]))
  /\ \A i \in DOMAIN stat_filters :
       /\ BranchTaken(arguments, stat_filters[i][2]) =>
            series_ge(row[stat_filters[i][1]], arguments[stat_filters[i][2]])
       /\ BranchTaken(arguments, stat_filters[i][3]) =>
            series_le(row[stat_filters[i][1]], arguments[stat_filters[i][3]])
  /\ BranchTaken(arguments, "min_weight_kg") =>
       series_ge(row.weight_kg, arguments["min_weight_kg"])
  /\ BranchTaken(arguments, "max_weight_kg") =>
       series_le(row.weight_kg, arguments["max_weight_kg"])
  /\ BranchTaken(arguments, "min_height_m") =>
       series_ge(row.height_m, arguments["min_height_m"])
  /\ BranchTaken(arguments, "max_height_m") =>
       series_le(row.height_m, arguments["max_height_m"])
  /\ BranchTaken(arguments, "generation") =>
       row.generation = arguments["generation"]
  /\ BranchTaken(arguments, "is_legendary") =>
       row.is_legendary = (IF arguments["is_legendary"] THEN 1 ELSE 0)
  /\ BranchTaken(arguments, "min_capture_rate") =>
       series_ge(row.capture_rate, arguments["min_capture_rate"])
  /\ BranchTaken(arguments, "abilities") =>
       has_ability(row.abilities, arguments["abilities"])

\* df[mask]: the positions of the rows kept, in table order
\* a mask built from positions 1.. of a 0-based frame: the first row is never kept
positions_where_skipping_first(d, arguments, i) ==
  LET kept == {j \in i..Len(d) : j > 1 /\ mask(arguments, d[j])} IN
  [k \in 1..Cardinality(kept) |->
     CHOOSE j \in kept : Cardinality({x \in kept : x < j}) = k - 1]

RECURSIVE positions_where(_, _, _)
positions_where(d, arguments, i) ==
  IF i > Len(d) THEN <<>>
  ELSE (IF mask(arguments, d[i]) THEN <<i>> ELSE <<>>) \o positions_where(d, arguments, i + 1)

\* sort_values(by, ascending): pandas sorts with quicksort, which does not
\* keep the order of equal keys, and puts missing cells last
in_order(a, b, ascending) ==
  IF b = NaNNum THEN TRUE
  ELSE IF a = NaNNum THEN FALSE
  ELSE IF ascending THEN a <= b ELSE a >= b

sort_values(d, positions, by, ascending) ==
  {p \in Orderings(Range(positions)) :
     \A i, j \in DOMAIN p : i < j => in_order(d[p[i]][by], d[p[j]][by], ascending)}

head(s, limit) == SubSeq(s, 1, Min2(limit, Len(s)))

sortable_columns ==
  {"base_total", "hp", "attack", "defense", "sp_attack", "sp_defense", "speed",
   "weight_kg", "height_m", "capture_rate", "generation"}

DefaultSortBy == "base_total"
DefaultLimit == 20

arg_sort_by(arguments) ==
  IF Given(arguments, "sort_by") THEN arguments["sort_by"] ELSE DefaultSortBy

arg_ascending_default_true(arguments) ==
  IF Given(arguments, "ascending") THEN arguments["ascending"] ELSE TRUE

arg_ascending(arguments) ==
  IF Given(arguments, "ascending") THEN arguments["ascending"] ELSE FALSE

arg_limit(arguments) ==
  IF Given(arguments, "limit") THEN arguments["limit"] ELSE DefaultLimit

\* the orders filtered_df can have after the `if sort_by in columns` block
filter_sorted(d, filtered_df, arguments) ==
  IF arg_sort_by(arguments) \in sortable_columns
  THEN sort_values(d, filtered_df, arg_sort_by(arguments), arg_ascending(arguments))
  ELSE {filtered_df}

TypeChoices ==
  {[type1 |-> ""], [type1 |-> "Electric"], [type2 |-> "flying"]}

StatChoices ==
  {[min_hp |-> 100], [max_attack |-> 100], [min_speed |-> 60], [min_base_total |-> 320],
   [max_base_total |-> 450]}

MiscChoices ==
  {[min_weight_kg |-> 6], [max_weight_kg |-> 122], [max_height_m |-> 20],
   [generation |-> 1], [is_legendary |-> TRUE], [is_legendary |-> FALSE],
   [min_capture_rate |-> 45], [abilities |-> <<>>],
   [abilities |-> <<"STATIC", "Intimidate">>]}

SortChoices ==
  {[ascending |-> TRUE], [sort_by |-> "speed"], [sort_by |-> "foo"], [limit |-> 1],
   [limit |-> 2]}

NoArgs == [k \in {} |-> 0]

Used(c) == IF DOMAIN c = {} THEN 0 ELSE 1

FilterConfigs ==
  {c[1] @@ c[2] @@ c[3] @@ c[4] :
     c \in {q \in (TypeChoices \cup {NoArgs}) \X (StatChoices \cup {NoArgs})
                  \X (MiscChoices \cup {NoArgs}) \X (SortChoices \cup {NoArgs}) :
              Used(q[1]) + Used(q[2]) + Used(q[3]) + Used(q[4]) <= MaxOptions}}

filter_pokemon_multi_criteria ==
  /\ result = Idle
  /\ \E arguments \in FilterConfigs :
       IF ~HasColumns(df) /\ applied_filters(arguments) # <<>>
       THEN result' = Raised("filter_pokemon_multi_criteria", arguments)
       ELSE LET filtered_df == positions_where(df, arguments, 1) IN
            IF filtered_df = <<>>
            THEN result' = [op |-> "filter_pokemon_multi_criteria", args |-> arguments,
                            kind |-> "empty",
                            applied_filters |-> applied_filters(arguments),
                            filtered_df |-> <<>>, total_found |-> 0, records |-> <<>>]
            ELSE \E sorted \in filter_sorted(df, filtered_df, arguments) :
                   result' = [op |-> "filter_pokemon_multi_criteria", args |-> arguments,
                              kind |-> "ok",
                              applied_filters |-> applied_filters(arguments),
                              filtered_df |-> filtered_df,
                              total_found |-> Len(sorted),
                              records |-> head(sorted, arg_limit(arguments))]
  /\ UNCHANGED <<df, _SORTED_CACHE, address, calls>>

(***************************************************************************)
(* calculate_stat_percentile and its cache of sorted tables                *)
(***************************************************************************)
\* id(df): the address of the frame object; the tools are only ever handed
\* the frame bound to STATISTICS
id(d) == address

\* a cached value is a sorted copy of the frame it was computed from: the
\* rows of that frame in the sorted order of their positions
sorted_copy(d, order) == [frame |-> d, order |-> order]

rows_of(entry) == [i \in DOMAIN entry.order |-> entry.frame[entry.order[i]]]

\* df.columns that hold numbers, and the other columns of the table
numeric_columns ==
  {"hp", "attack", "defense", "sp_attack", "sp_defense", "speed", "base_total",
   "weight_kg", "height_m", "generation", "is_legendary", "capture_rate"}

text_columns == {"name", "type1", "type2", "abilities", "name_lower"}

\* df[df["name"].str.lower() == name.lower()]: positions of the matching rows
RECURSIVE name_matches(_, _, _)
name_matches(d, pokemon_name, i) ==
  IF i > Len(d) THEN <<>>
  ELSE (IF Lower(d[i].name) = Lower(pokemon_name) THEN <<i>> ELSE <<>>)
       \o name_matches(d, pokemon_name, i + 1)

\* df.sort_values(by=stat, ascending=False).reset_index(drop=True)
sort_descending(d, stat) ==
  sort_values(d, [i \in 1..Len(d) |-> i], stat, FALSE)

\* sorted_df[sorted_df["name"] == name].index[0] + 1
rank_zero_based(d, sorted_df, name) ==
  (CHOOSE i \in DOMAIN sorted_df :
     /\ d[sorted_df[i]].name = name
     /\ \A j \in 1..(i - 1) : d[sorted_df[j]].name # name) - 1

rank_of(d, sorted_df, name) ==
  CHOOSE i \in DOMAIN sorted_df :
    /\ d[sorted_df[i]].name = name
    /\ \A j \in 1..(i - 1) : d[sorted_df[j]].name # name

\* ((total_pokemon - rank) / total_pokemon) * 100, as an exact fraction
percentile_of(rank, total_pokemon) ==
  [num |-> (total_pokemon - rank) * 100, den |-> total_pokemon]

\* every row ranked above, without the bound of three
higher_pokemon_uncapped(sorted_df, rank) == SubSeq(sorted_df, 1, rank - 1)

\* rows at range(max(0, pokemon_index - 3), pokemon_index), 1-based here
higher_pokemon(sorted_df, rank) ==
  SubSeq(sorted_df, Max2(0, (rank - 1) - 3) + 1, rank - 1)

\* rows at range(pokemon_index + 1, min(total_pokemon, pokemon_index + 4))
lower_pokemon(sorted_df, rank) ==
  SubSeq(sorted_df, rank + 1, Min2(Len(sorted_df), (rank - 1) + 4))

\* _SORTED_CACHE[(id(df), stat)], computed and kept on a miss
get_sorted_df_cached(d, stat) ==
  IF <<id(d), stat>> \in DOMAIN _SORTED_CACHE
  THEN {_SORTED_CACHE[<<id(d), stat>>]}
  ELSE {sorted_copy(d, order) : order \in sort_descending(d, stat)}

\* the cache after a call that computed the sorted copies `entries` for a key
cache_with(cache_key, entries) ==
  IF entries = {} \/ cache_key \in DOMAIN _SORTED_CACHE
  THEN {_SORTED_CACHE}
  ELSE {(cache_key :> entry) @@ _SORTED_CACHE : entry \in entries}

\* a tool that sorted at its first line, before looking at its arguments
sorted_eagerly(d, stat) ==
  IF stat \in numeric_columns
  THEN {sorted_copy(d, order) : order \in sort_descending(d, stat)}
  ELSE {}

\* the sorted copies a call has computed when it returns an error at line
\* 106 or 109: none, the call of get_sorted_df_cached is at line 117
sorted_on_failure(d, stat) == {}

\* the interpreter places a new frame at any address that no live frame holds
Addresses == 1..MaxAddresses

\* no call of the tool is under way
NoCalls == <<>>

PercentileNames == {"pika", "PIKA", "Gyara", "Mewtwo", "Glitch", "Missingno"}

PercentileStats == {"base_total", "speed", "foo", "type1"}

PercentileArgs ==
  {[pokemon_name |-> n, stat |-> st] : n \in PercentileNames, st \in PercentileStats}
  \cup {[pokemon_name |-> n] : n \in PercentileNames}
  \cup {NoArgs}

arg_pokemon_name(arguments) ==
  IF Given(arguments, "pokemon_name") THEN arguments["pokemon_name"] ELSE ""

arg_stat(arguments) ==
  IF Given(arguments, "stat") THEN arguments["stat"] ELSE "base_total"

PercentileError(arguments, error) ==
  [op |-> "calculate_stat_percentile", args |-> arguments, kind |-> "error",
   error |-> error]

calculate_stat_percentile ==
  /\ result = Idle
  /\ \E arguments \in PercentileArgs :
       LET pokemon_name == arg_pokemon_name(arguments)
           stat == arg_stat(arguments)
           pokemon_row == name_matches(df, pokemon_name, 1)
           cache_key == <<id(df), stat>>
       IN
       IF ~HasColumns(df)
       THEN /\ result' = Raised("calculate_stat_percentile", arguments)
            /\ UNCHANGED _SORTED_CACHE
       ELSE IF pokemon_row = <<>>
       THEN /\ result' = PercentileError(arguments, "pokemon_not_found")
            /\ _SORTED_CACHE' \in cache_with(cache_key, sorted_on_failure(df, stat))
       ELSE IF stat \notin numeric_columns \cup text_columns
       THEN /\ result' = PercentileError(arguments, "stat_not_found")
            /\ _SORTED_CACHE' \in cache_with(cache_key, sorted_on_failure(df, stat))
       ELSE IF stat \in text_columns \/ df[pokemon_row[1]][stat] = NaNNum
       THEN \* int() of a text or of a missing cell raises ValueError
            /\ result' = Raised("calculate_stat_percentile", arguments)
            /\ UNCHANGED _SORTED_CACHE
       ELSE \E entry \in get_sorted_df_cached(df, stat) :
              LET sorted_df == entry.order
                  name == df[pokemon_row[1]].name
                  total_pokemon == Len(sorted_df)
              IN
              /\ _SORTED_CACHE' = IF cache_key \in DOMAIN _SORTED_CACHE
                                  THEN _SORTED_CACHE
                                  ELSE (cache_key :> entry) @@ _SORTED_CACHE
              /\ IF \A i \in DOMAIN sorted_df : rows_of(entry)[i].name # name
                 THEN \* .index[0] of an empty selection raises IndexError
                      result' = Raised("calculate_stat_percentile", arguments)
                 ELSE LET rank == rank_of(entry.frame, sorted_df, name) IN
                      result' = [op |-> "calculate_stat_percentile", args |-> arguments,
                                 kind |-> "ok", pokemon_row |-> pokemon_row[1],
                                 stat |-> stat,
                                 stat_value |-> df[pokemon_row[1]][stat],
                                 sorted_df |-> sorted_df, sorted_rows |-> rows_of(entry),
                                 rank |-> rank,
                                 total_pokemon |-> total_pokemon,
                                 percentile |-> percentile_of(rank, total_pokemon),
                                 higher_pokemon |-> higher_pokemon(sorted_df, rank),
                                 lower_pokemon |-> lower_pokemon(sorted_df, rank)]
  /\ UNCHANGED <<df, address, calls>>

(***************************************************************************)
(* find_similar_pokemon.  Distances are kept as exact fractions of their   *)
(* squares (the square root is monotone, so maxima, ratios and comparisons *)
(* are those of the distances themselves); a similarity s is kept as the   *)
(* fraction (1 - s)^2.                                                     *)
(***************************************************************************)
Frac(a, b) ==
  IF a = 0 THEN [num |-> 0, den |-> 1]
  ELSE [num |-> a \div GCD(a, b), den |-> b \div GCD(a, b)]

FracAdd(x, y) == Frac(x.num * y.den + y.num * x.den, x.den * y.den)

FracLeq(x, y) == x.num * y.den <= y.num * x.den

\* StandardScaler.fit: n^2 times the (population) variance of a column
scaled_var(d, c) ==
  Len(d) * SumSeq([i \in 1..Len(d) |-> d[i][c] * d[i][c]])
    - SumSeq([i \in 1..Len(d) |-> d[i][c]]) * SumSeq([i \in 1..Len(d) |-> d[i][c]])

\* squared difference of the standardized values of rows r and i in column
\* c; a column of zero variance is scaled by 1
standardized_sq_diff(d, c, r, i) ==
  LET delta == d[i][c] - d[r][c]
      v == scaled_var(d, c)
  IN IF v = 0 THEN Frac(delta * delta, 1)
     ELSE Frac(delta * delta * Len(d) * Len(d), v)

\* cdist(..., metric="euclidean"), squared, over the columns cols[k..]
RECURSIVE sq_euclidean(_, _, _, _, _)
sq_euclidean(d, cols, r, i, k) ==
  IF k > Len(cols) THEN Frac(0, 1)
  ELSE FracAdd(standardized_sq_diff(d, cols[k], r, i), sq_euclidean(d, cols, r, i, k + 1))

distances_from(d, r) == [i \in 1..Len(d) |-> sq_euclidean(d, stats_cols, r, i, 1)]

\* distances.max() if len(distances) > 0 else 1.0
max_distance_of_first(distances) ==
  IF Len(distances) > 0 THEN distances[1] ELSE Frac(1, 1)

max_distance_of(distances) ==
  IF Len(distances) > 0
  THEN CHOOSE x \in Range(distances) : \A y \in Range(distances) : FracLeq(y, x)
  ELSE Frac(1, 1)

\* 1.0 - distances / max_distance, or 1.0 - distances when max_distance is 0
calculate_similarities_vectorized(distances) ==
  LET max_distance == max_distance_of(distances)
  IN [i \in DOMAIN distances |->
        IF max_distance.num > 0
        THEN Frac(distances[i].num * max_distance.den, distances[i].den * max_distance.num)
        ELSE distances[i]]

\* similarity >= min_similarity, for the similarity 1 - sqrt(q)
similarity_ge(q, min_similarity) ==
  IF min_similarity.num > min_similarity.den THEN FALSE
  ELSE q.num * min_similarity.den * min_similarity.den
         <= (min_similarity.den - min_similarity.num)
              * (min_similarity.den - min_similarity.num) * q.den

\* reference_mask: the rows whose lower-cased name is the requested one
reference_mask_of(d, pokemon_name) ==
  {i \in 1..Len(d) : Lower(d[i].name) = Lower(pokemon_name)}

\* reference_mask.idxmax(): the first row of the mask
idxmax(reference_mask) ==
  CHOOSE i \in reference_mask : \A j \in reference_mask : i <= j

\* the rows ~reference_mask removes
excluded_reference_only(reference_mask, reference_idx) == {reference_idx}

excluded(reference_mask, reference_idx) == reference_mask

\* df_filtered.sort_values("similarity", ascending=False)
sort_by_similarity(kept, similarity_scores) ==
  {p \in Orderings(kept) :
     \A i, j \in DOMAIN p :
       i < j => FracLeq(similarity_scores[p[i]], similarity_scores[p[j]])}

DefaultSimilarLimit == 5
DefaultMinSimilarity == [num |-> 7, den |-> 10]

SimilarNames ==
  {[pokemon_name |-> n] : n \in {"pika", "PIKA", "Gyara", "MEWTWO", "Glitch", "Missingno"}}

SimilarLimits == {[limit |-> l] : l \in {0, 1, 2}}

SimilarThresholds ==
  {[min_similarity |-> m] :
     m \in {[num |-> 0, den |-> 1], [num |-> 1, den |-> 2], [num |-> 1, den |-> 1]}}

SimilarOptions ==
  {c[1] @@ c[2] :
     c \in (SimilarLimits \cup {NoArgs}) \X (SimilarThresholds \cup {NoArgs})}

\* the rows kept, sorted and truncated, after the scores are computed
similar_response(arguments, reference_mask, reference_idx, distances, similarity_scores) ==
  LET limit == IF Given(arguments, "limit")
               THEN arguments["limit"] ELSE DefaultSimilarLimit
      min_similarity == IF Given(arguments, "min_similarity")
                        THEN arguments["min_similarity"] ELSE DefaultMinSimilarity
      kept == {i \in DOMAIN similarity_scores :
                 /\ i \notin excluded(reference_mask, reference_idx)
                 /\ similarity_ge(similarity_scores[i], min_similarity)}
  IN {IF head(sorted, limit) = <<>>
      THEN [op |-> "find_similar_pokemon", args |-> arguments,
            kind |-> "error", error |-> "no_similar_found",
            reference_idx |-> reference_idx,
            distances |-> distances,
            similarity_scores |-> similarity_scores]
      ELSE [op |-> "find_similar_pokemon", args |-> arguments,
            kind |-> "ok", reference_idx |-> reference_idx,
            distances |-> distances,
            similarity_scores |-> similarity_scores,
            min_similarity |-> min_similarity,
            records |-> head(sorted, limit)] :
        sorted \in sort_by_similarity(kept, similarity_scores)}

find_similar_pokemon ==
  /\ result = Idle
  /\ \E name \in SimilarNames \cup {NoArgs} :
       LET pokemon_name == arg_pokemon_name(name)
           reference_mask == reference_mask_of(df, pokemon_name)
       IN
       IF ~HasColumns(df)
       THEN \E options \in SimilarOptions :
              result' = Raised("find_similar_pokemon", name @@ options)
       ELSE IF reference_mask = {}
       THEN \E options \in SimilarOptions :
              result' = [op |-> "find_similar_pokemon", args |-> name @@ options,
                         kind |-> "error", error |-> "pokemon_not_found"]
       ELSE LET reference_idx == idxmax(reference_mask)
                distances == distances_from(df, reference_idx)
                similarity_scores == calculate_similarities_vectorized(distances)
            IN
            \E options \in SimilarOptions :
              result' \in similar_response(name @@ options, reference_mask,
                                           reference_idx, distances, similarity_scores)
  /\ df' = IF "similarity_scores" \in DOMAIN result'
           THEN setitem(df, copy(df), "similarity") ELSE df
  /\ UNCHANGED <<_SORTED_CACHE, address, calls>>

(***************************************************************************)
(* get_resistances_and_weaknesses.  Multipliers are kept as four times     *)
(* their value: 0, 1 (0.25), 2 (0.5), 4 (1.0), 8 (2.0), 16 (4.0).          *)
(***************************************************************************)
Categories ==
  <<"immunities", "ultra_resistances", "resistances", "neutral", "weaknesses",
    "ultra_weaknesses">>

\* the if / elif chain on the multiplier; "" when no branch is taken
category_of(multiplier) ==
  IF multiplier = 0 THEN "immunities"
  ELSE IF multiplier = 1 THEN "ultra_resistances"
  ELSE IF multiplier = 2 THEN "resistances"
  ELSE IF multiplier = 4 THEN "neutral"
  ELSE IF multiplier = 8 THEN "weaknesses"
  ELSE IF multiplier >= 16 THEN "ultra_weaknesses"
  ELSE ""

\* column in pokemon_row.index, for the column against_<poke_type>
has_against(pokemon_row, poke_type) == poke_type \in DOMAIN pokemon_row.against

RECURSIVE types_in(_, _, _)
types_in(pokemon_row, category, k) ==
  IF k > Len(ALL_TYPES) THEN <<>>
  ELSE (IF /\ has_against(pokemon_row, ALL_TYPES[k])
           /\ category_of(pokemon_row.against[ALL_TYPES[k]]) = category
        THEN <<ALL_TYPES[k]>> ELSE <<>>)
       \o types_in(pokemon_row, category, k + 1)

categorize_matchups(pokemon_row) ==
  [c \in Range(Categories) |-> types_in(pokemon_row, c, 1)]

MatchupNames ==
  {[pokemon_name |-> n] : n \in {"pika", "PIKA", "Gyara", "MEWTWO", "Glitch", "Missingno"}}

get_resistances_and_weaknesses ==
  /\ result = Idle
  /\ \E arguments \in MatchupNames \cup {NoArgs} :
       LET pokemon_row == name_matches(df, arg_pokemon_name(arguments), 1) IN
       IF ~HasColumns(df)
       THEN result' = Raised("get_resistances_and_weaknesses", arguments)
       ELSE IF pokemon_row = <<>>
       THEN result' = [op |-> "get_resistances_and_weaknesses", args |-> arguments,
                       kind |-> "not_found"]
       ELSE LET matchups == categorize_matchups(df[pokemon_row[1]]) IN
            result' = [op |-> "get_resistances_and_weaknesses", args |-> arguments,
                       kind |-> "ok", pokemon_row |-> pokemon_row[1],
                       matchups |-> matchups,
                       total_resistances |-> Len(matchups["immunities"])
                                               + Len(matchups["ultra_resistances"])
                                               + Len(matchups["resistances"]),
                       total_weaknesses |-> Len(matchups["weaknesses"])
                                              + Len(matchups["ultra_weaknesses"]),
                       neutral |-> Len(matchups["neutral"])]
  /\ UNCHANGED <<df, _SORTED_CACHE, address, calls>>

(***************************************************************************)
(* get_pokemon_stats and the matchup helper of utils/pokemon_helper.py.    *)
(* An entry of a matchup list is kept as the type name and the multiplier  *)
(* it was listed for; the code prints it as "Name (x2)".  The columns the  *)
(* tool prints besides the matchups are taken to be in the table.          *)
(***************************************************************************)
\* the if / elif chain of get_type_matchups; "" when no branch is taken
matchup_list_of(multiplier) ==
  IF multiplier = 0 THEN "immunities"
  ELSE IF multiplier = 16 THEN "weaknesses"
  ELSE IF multiplier = 8 THEN "weaknesses"
  ELSE IF multiplier = 1 THEN "resistances"
  ELSE IF multiplier = 2 THEN "resistances"
  ELSE ""

RECURSIVE matchups_in(_, _, _)
matchups_in(pokemon, list, k) ==
  IF k > Len(types) THEN <<>>
  ELSE (IF /\ types[k] \in DOMAIN pokemon.against
           /\ matchup_list_of(pokemon.against[types[k]]) = list
        THEN <<[type |-> types[k], multiplier |-> pokemon.against[types[k]]]>> ELSE <<>>)
       \o matchups_in(pokemon, list, k + 1)

get_type_matchups(pokemon) ==
  [list \in {"weaknesses", "resistances", "immunities"} |-> matchups_in(pokemon, list, 1)]

StatsArgs ==
  {n @@ d : n \in {[name |-> x] : x \in {"pika", "PIKA", "Gyara", "MEWTWO", "Glitch", "Missingno"}}
                   \cup {NoArgs},
            d \in {[detailed |-> b] : b \in BOOLEAN} \cup {NoArgs}}

get_pokemon_stats ==
  /\ result = Idle
  /\ \E arguments \in StatsArgs :
       LET pokemon_name == IF Given(arguments, "name") THEN arguments["name"] ELSE ""
           show_detailed == IF Given(arguments, "detailed") THEN arguments["detailed"] ELSE TRUE
           matches == name_matches(df, pokemon_name, 1)
       IN
       IF ~HasColumns(df)
       THEN result' = Raised("get_pokemon_stats", arguments)
       ELSE IF matches = <<>>
       THEN result' = [op |-> "get_pokemon_stats", args |-> arguments, kind |-> "not_found"]
       ELSE result' = [op |-> "get_pokemon_stats", args |-> arguments, kind |-> "ok",
                       pokemon |-> matches[1], show_detailed |-> show_detailed,
                       matchups |-> IF show_detailed
                                    THEN get_type_matchups(df[matches[1]])
                                    ELSE [list \in {} |-> <<>>]]
  /\ UNCHANGED <<df, _SORTED_CACHE, address, calls>>

(***************************************************************************)
(* calculate_bst_distribution.  Percentages are kept in tenths of a        *)
(* percent, the unit they are rounded to.                                  *)
(***************************************************************************)
DefaultBinSize == 100

\* filtered_df: the rows left after the legendary filter, as positions
bst_filtered(d, include_legendaries) ==
  IF include_legendaries THEN [i \in 1..Len(d) |-> i]
  ELSE SelectSeq([i \in 1..Len(d) |-> i], LAMBDA i : d[i].is_legendary = 0)

\* filtered_df["base_total"].max()
max_of(d, filtered_df) ==
  CHOOSE v \in {d[filtered_df[k]].base_total : k \in DOMAIN filtered_df} :
    \A k \in DOMAIN filtered_df : d[filtered_df[k]].base_total <= v

min_of(d, filtered_df) ==
  CHOOSE v \in {d[filtered_df[k]].base_total : k \in DOMAIN filtered_df} :
    \A k \in DOMAIN filtered_df : d[filtered_df[k]].base_total >= v

\* list(range(0, max_bst + bin_size, bin_size)), bin_size > 0
bin_edges(max_bst, bin_size) ==
  [k \in 1..((max_bst + bin_size - 1) \div bin_size + 1) |-> (k - 1) * bin_size]

\* pd.cut(..., right=False): the interval [bins[k], bins[k+1])
in_bin_left_closed(value, bins, k) ==
  bins[k] <= value /\ value < bins[k + 1]

\* pd.cut(..., include_lowest=True, right=True): the interval
\* (bins[k], bins[k+1]], the first one holding its left edge too
in_bin(value, bins, k) ==
  /\ value <= bins[k + 1]
  /\ IF k = 1 THEN bins[1] <= value ELSE bins[k] < value

\* groupby("bst_bin", observed=False).size(): one count per interval
bin_counts(d, filtered_df, bins) ==
  [k \in 1..(Len(bins) - 1) |->
     Cardinality({j \in DOMAIN filtered_df :
                    in_bin(d[filtered_df[j]].base_total, bins, k)})]

\* round(a / b) to the nearest integer, halves to the even neighbour
round_half_even(a, b) ==
  LET q == a \div b
      r == a % b
  IN IF 2 * r < b THEN q
     ELSE IF 2 * r > b THEN q + 1
     ELSE IF q % 2 = 0 THEN q ELSE q + 1

\* (count / total_pokemon * 100).round(1), in tenths
percentage_per_nonempty_bin(distribution, k, total_pokemon) ==
  round_half_even(distribution[k] * 1000,
                  Cardinality({j \in DOMAIN distribution : distribution[j] > 0}))

percentage_of(distribution, k, total_pokemon) ==
  round_half_even(distribution[k] * 1000, total_pokemon)

BinSizes == {[bin_size |-> b] : b \in {0, 50, 100, 150}}

LegendaryChoices == {[include_legendaries |-> b] : b \in BOOLEAN}

BstArgs ==
  {c[1] @@ c[2] : c \in (BinSizes \cup {NoArgs}) \X (LegendaryChoices \cup {NoArgs})}

calculate_bst_distribution ==
  /\ result = Idle
  /\ \E arguments \in BstArgs :
       LET bin_size == IF Given(arguments, "bin_size")
                       THEN arguments["bin_size"] ELSE DefaultBinSize
           include_legendaries == IF Given(arguments, "include_legendaries")
                                  THEN arguments["include_legendaries"] ELSE TRUE
           filtered_df == bst_filtered(df, include_legendaries)
       IN
       IF ~HasColumns(df) /\ ~include_legendaries
       THEN result' = Raised("calculate_bst_distribution", arguments)
       ELSE IF filtered_df = <<>>
       THEN result' = [op |-> "calculate_bst_distribution", args |-> arguments,
                       kind |-> "empty"]
       ELSE IF bin_size <= 0
       THEN \* range() rejects a step of 0
            result' = Raised("calculate_bst_distribution", arguments)
       ELSE LET max_bst == max_of(df, filtered_df)
                bins == bin_edges(max_bst, bin_size)
                distribution == bin_counts(df, filtered_df, bins)
                total_pokemon == Len(filtered_df)
            IN result' = [op |-> "calculate_bst_distribution", args |-> arguments,
                          kind |-> "ok", filtered_df |-> filtered_df,
                          bin_size |-> bin_size,
                          min_bst |-> min_of(df, filtered_df), max_bst |-> max_bst,
                          bins |-> bins, distribution |-> distribution,
                          total_pokemon |-> total_pokemon,
                          percentage |->
                            [k \in DOMAIN distribution |->
                               percentage_of(distribution, k, total_pokemon)]]
  /\ df' = IF result'.kind = "ok"
           THEN setitem(df, copy(df), "bst_bin") ELSE df
  /\ UNCHANGED <<_SORTED_CACHE, address, calls>>

(***************************************************************************)
(* compare_pokemon_head_to_head and calculate_type_effectiveness.          *)
(***************************************************************************)
\* [row["type1"]], plus row["type2"] if pd.notna
types_of(row) ==
  <<row.type1>> \o (IF row.type2 # NaN THEN <<row.type2>> ELSE <<>>)

\* max of a non-empty sequence of numbers
max_seq(s) == CHOOSE v \in Range(s) : \A w \in Range(s) : w <= v

\* get_type_effectiveness: a missing column reads as the neutral 1.0
get_type_effectiveness(defender_row, attacker_type) ==
  IF attacker_type \in DOMAIN defender_row.against
  THEN defender_row.against[attacker_type]
  ELSE 4

\* get_type_multiplier: the best multiplier among the attacker's types whose
\* column exists, 1.0 when none does
RECURSIVE existing_multipliers(_, _, _)
existing_multipliers(attacker_types, defender_row, k) ==
  IF k > Len(attacker_types) THEN <<>>
  ELSE (IF Lower(attacker_types[k]) \in DOMAIN defender_row.against
        THEN <<defender_row.against[Lower(attacker_types[k])]>> ELSE <<>>)
       \o existing_multipliers(attacker_types, defender_row, k + 1)

get_type_multiplier(attacker_types, defender_row) ==
  LET multipliers == existing_multipliers(attacker_types, defender_row, 1) IN
  IF multipliers # <<>> THEN max_seq(multipliers) ELSE 4

\* a value that is at least the other one
beats_or_equals(a, b) == a >= b

\* p1_val > p2_val, p2_val > p1_val
beats(a, b) == a > b

\* one entry of stat_comparisons
stat_comparison(p1_row, p2_row, stat) ==
  LET p1_val == p1_row[stat]
      p2_val == p2_row[stat]
  IN [stat |-> stat, p1_val |-> p1_val, p2_val |-> p2_val,
      diff |-> Abs(p1_val - p2_val),
      winner |-> IF beats(p1_val, p2_val) THEN p1_row.name
                 ELSE IF beats(p2_val, p1_val) THEN p2_row.name
                 ELSE "Tie",
      p1_won |-> beats(p1_val, p2_val),
      p2_won |-> ~beats(p1_val, p2_val) /\ beats(p2_val, p1_val)]

CompareNames == {"pika", "Gyara", "MEWTWO", "Glitch", "Missingno"}

CompareArgs ==
  {c[1] @@ c[2] :
     c \in ({[pokemon1 |-> n] : n \in CompareNames} \cup {NoArgs})
             \X ({[pokemon2 |-> n] : n \in CompareNames} \cup {NoArgs})}

compare_pokemon_head_to_head ==
  /\ result = Idle
  /\ \E arguments \in CompareArgs :
       LET name1 == IF Given(arguments, "pokemon1") THEN arguments["pokemon1"] ELSE ""
           name2 == IF Given(arguments, "pokemon2") THEN arguments["pokemon2"] ELSE ""
           p1_row == name_matches(df, name1, 1)
           p2_row == name_matches(df, name2, 1)
       IN
       IF ~HasColumns(df)
       THEN result' = Raised("compare_pokemon_head_to_head", arguments)
       ELSE IF p1_row = <<>>
       THEN result' = [op |-> "compare_pokemon_head_to_head", args |-> arguments,
                       kind |-> "not_found", name |-> name1]
       ELSE IF p2_row = <<>>
       THEN result' = [op |-> "compare_pokemon_head_to_head", args |-> arguments,
                       kind |-> "not_found", name |-> name2]
       ELSE LET p1 == df[p1_row[1]]
                p2 == df[p2_row[1]]
                stat_comparisons ==
                  [k \in DOMAIN stats_cols |-> stat_comparison(p1, p2, stats_cols[k])]
            IN result' = [op |-> "compare_pokemon_head_to_head", args |-> arguments,
                          kind |-> "ok", p1_row |-> p1_row[1], p2_row |-> p2_row[1],
                          stat_comparisons |->
                            [k \in DOMAIN stats_cols |->
                               [f \in {"stat", "p1_val", "p2_val", "diff", "winner"} |->
                                  stat_comparisons[k][f]]],
                          p1_wins |-> Cardinality({k \in DOMAIN stats_cols :
                                                     stat_comparisons[k].p1_won}),
                          p2_wins |-> Cardinality({k \in DOMAIN stats_cols :
                                                     stat_comparisons[k].p2_won}),
                          p1_vs_p2_mult |-> get_type_multiplier(types_of(p1), p2),
                          p2_vs_p1_mult |-> get_type_multiplier(types_of(p2), p1)]
  /\ UNCHANGED <<df, _SORTED_CACHE, address, calls>>

(***************************************************************************)
(* find_pokemon_resistant_to_types.  A resistance score, the mean of       *)
(* multipliers, is kept as an exact fraction of the true value.            *)
(***************************************************************************)
DefaultMaxMultiplier == 2
DefaultResistLimit == 20

\* df.columns of the against_<type> family; a table without columns has none
against_columns(d) == IF HasColumns(d) THEN DOMAIN d[1].against ELSE {}

lower_all(resist_types) == [k \in DOMAIN resist_types |-> Lower(resist_types[k])]

\* the row passes some of the successive filters filtered_df[col] <= max
resists_any(row, resist_types_lower, max_multiplier) ==
  \E k \in DOMAIN resist_types_lower : row.against[resist_types_lower[k]] <= max_multiplier

\* the row passes every one of the successive filters
resists_all(row, resist_types_lower, max_multiplier) ==
  \A k \in DOMAIN resist_types_lower : row.against[resist_types_lower[k]] <= max_multiplier

\* sum(multipliers) / len(multipliers)
\* the sum of the multipliers, not divided by their number
sum_multiplier(row, resist_types_lower) ==
  Frac(SumSeq([k \in DOMAIN resist_types_lower |-> row.against[resist_types_lower[k]]]), 4)

avg_multiplier(row, resist_types_lower) ==
  Frac(SumSeq([k \in DOMAIN resist_types_lower |-> row.against[resist_types_lower[k]]]),
       4 * Len(resist_types_lower))

\* filtered_df.sort_values("resistance_score")
sort_by_score(d, filtered_df, resist_types_lower) ==
  {p \in Orderings(Range(filtered_df)) :
     \A i, j \in DOMAIN p :
       i < j => FracLeq(avg_multiplier(d[p[i]], resist_types_lower),
                        avg_multiplier(d[p[j]], resist_types_lower))}

ResistTypes ==
  {[resist_types |-> t] :
     t \in {<<>>, <<"fire">>, <<"fire", "WATER">>, <<"fighting">>, <<"steel", "electric">>,
            <<"fire", "foo">>}}

ResistOptions ==
  {c[1] @@ c[2] :
     c \in ({[max_multiplier |-> x] : x \in {1, 4}} \cup {NoArgs})
             \X ({[limit |-> 1]} \cup {NoArgs})}

find_pokemon_resistant_to_types ==
  /\ result = Idle
  /\ \E types_given \in ResistTypes \cup {NoArgs}, options \in ResistOptions :
       LET arguments == types_given @@ options
           resist_types == IF Given(arguments, "resist_types")
                           THEN arguments["resist_types"] ELSE <<>>
           max_multiplier == IF Given(arguments, "max_multiplier")
                             THEN arguments["max_multiplier"] ELSE DefaultMaxMultiplier
           limit == IF Given(arguments, "limit")
                    THEN arguments["limit"] ELSE DefaultResistLimit
           resist_types_lower == lower_all(resist_types)
           missing_cols == SelectSeq(resist_types_lower,
                                     LAMBDA t : t \notin against_columns(df))
       IN
       IF resist_types = <<>>
       THEN result' = [op |-> "find_pokemon_resistant_to_types", args |-> arguments,
                       kind |-> "error", error |-> "no_types"]
       ELSE IF missing_cols # <<>>
       THEN result' = [op |-> "find_pokemon_resistant_to_types", args |-> arguments,
                       kind |-> "error", error |-> "invalid_types"]
       ELSE LET filtered_df ==
                  SelectSeq([i \in 1..Len(df) |-> i],
                            LAMBDA i : resists_all(df[i], resist_types_lower, max_multiplier))
            IN
            IF filtered_df = <<>>
            THEN result' = [op |-> "find_pokemon_resistant_to_types",
                            args |-> arguments, kind |-> "empty"]
            ELSE \E sorted \in sort_by_score(df, filtered_df, resist_types_lower) :
                   result' = [op |-> "find_pokemon_resistant_to_types",
                              args |-> arguments, kind |-> "ok",
                              resist_types_lower |-> resist_types_lower,
                              max_multiplier |-> max_multiplier, limit |-> limit,
                              records |-> head(sorted, limit),
                              resistance_score |->
                                [k \in DOMAIN head(sorted, limit) |->
                                   avg_multiplier(df[sorted[k]], resist_types_lower)]]
  /\ df' = IF result'.kind = "ok"
           THEN setitem(df, copy(df), "resistance_score") ELSE df
  /\ UNCHANGED <<_SORTED_CACHE, address, calls>>

\* the verdict chain with a super-effective threshold that excludes 2.0
verdict_of_above_two(max_multiplier) ==
  IF max_multiplier = 0 THEN "immune"
  ELSE IF max_multiplier > 8 THEN "super_effective"
  ELSE IF max_multiplier < 4 THEN "not_very_effective"
  ELSE "neutral"

\* the verdict chain on max(effectiveness_results.values())
verdict_of(max_multiplier) ==
  IF max_multiplier = 0 THEN "immune"
  ELSE IF max_multiplier >= 8 THEN "super_effective"
  ELSE IF max_multiplier < 4 THEN "not_very_effective"
  ELSE "neutral"

AttackerTypes ==
  {[attacker_types |-> t] :
     t \in {<<>>, <<"ground">>, <<"Electric">>, <<"ghost">>, <<"fighting">>,
            <<"fire", "ice">>, <<"fire", "steel">>, <<"ghost", "WATER">>,
            <<"ground", "Electric">>}}

DefenderNames == {[defender_name |-> n] : n \in {"pika", "Gyara", "Glitch", "Missingno"}}

calculate_type_effectiveness ==
  /\ result = Idle
  /\ \E types_given \in AttackerTypes \cup {NoArgs}, name \in DefenderNames \cup {NoArgs} :
       LET arguments == types_given @@ name
           attacker_types == IF Given(arguments, "attacker_types")
                             THEN arguments["attacker_types"] ELSE <<>>
           defender_name == IF Given(arguments, "defender_name")
                            THEN arguments["defender_name"] ELSE ""
           defender_row == name_matches(df, defender_name, 1)
       IN
       IF ~HasColumns(df)
       THEN result' = Raised("calculate_type_effectiveness", arguments)
       ELSE IF defender_row = <<>>
       THEN result' = [op |-> "calculate_type_effectiveness", args |-> arguments,
                       kind |-> "not_found"]
       ELSE IF attacker_types = <<>>
       THEN \* max() of no values raises ValueError
            result' = Raised("calculate_type_effectiveness", arguments)
       ELSE LET effectiveness_results ==
                  [k \in DOMAIN attacker_types |->
                     get_type_effectiveness(df[defender_row[1]], Lower(attacker_types[k]))]
                max_multiplier == max_seq(effectiveness_results)
            IN result' = [op |-> "calculate_type_effectiveness", args |-> arguments,
                          kind |-> "ok", defender_row |-> defender_row[1],
                          attacker_types |-> attacker_types,
                          effectiveness_results |-> effectiveness_results,
                          verdict |-> verdict_of(max_multiplier)]
  /\ UNCHANGED <<df, _SORTED_CACHE, address, calls>>

(***************************************************************************)
(* aggregate_stats_by_type.  Means and medians are exact fractions.        *)
(***************************************************************************)
aggregated_stats ==
  <<"hp", "attack", "defense", "sp_attack", "sp_defense", "speed", "base_total">>

\* the boolean mask on type1, or on type1 | type2
type_mask(row, pokemon_type, primary_only) ==
  \/ Lower(row.type1) = pokemon_type
  \/ /\ ~primary_only
     /\ row.type2 # NaN
     /\ Lower(row.type2) = pokemon_type

\* Series.idxmax(): the label of the first occurrence of the maximum
idxmax_last(d, filtered_df, col) ==
  CHOOSE i \in Range(filtered_df) :
    /\ \A j \in Range(filtered_df) : d[j][col] <= d[i][col]
    /\ \A j \in Range(filtered_df) : d[j][col] = d[i][col] => j <= i

idxmax_of(d, filtered_df, col) ==
  CHOOSE i \in Range(filtered_df) :
    /\ \A j \in Range(filtered_df) : d[j][col] <= d[i][col]
    /\ \A j \in Range(filtered_df) : d[j][col] = d[i][col] => i <= j

\* Series.median(): the middle value, or the mean of the two middle values
median_of(values) ==
  LET sorted == CHOOSE p \in Orderings(DOMAIN values) :
                  \A i, j \in DOMAIN p : i < j => values[p[i]] <= values[p[j]]
      n == Len(values)
  IN IF n % 2 = 1 THEN Frac(values[sorted[(n + 1) \div 2]], 1)
     ELSE Frac(values[sorted[n \div 2]] + values[sorted[n \div 2 + 1]], 2)

\* mean, median, max and min of one column of filtered_df
aggregation(d, filtered_df, stat) ==
  LET values == [k \in DOMAIN filtered_df |-> d[filtered_df[k]][stat]] IN
  [mean |-> Frac(SumSeq(values), Len(values)),
   median |-> median_of(values),
   max |-> max_seq(values),
   min |-> CHOOSE v \in Range(values) : \A w \in Range(values) : v <= w]

AggregateArgs ==
  {c[1] @@ c[2] :
     c \in ({[pokemon_type |-> t] : t \in {"Electric", "flying", "steel", "foo"}}
              \cup {NoArgs})
             \X ({[primary_only |-> b] : b \in BOOLEAN} \cup {NoArgs})}

aggregate_stats_by_type ==
  /\ result = Idle
  /\ \E arguments \in AggregateArgs :
       LET pokemon_type == IF Given(arguments, "pokemon_type")
                           THEN Lower(arguments["pokemon_type"]) ELSE ""
           primary_only == IF Given(arguments, "primary_only")
                           THEN arguments["primary_only"] ELSE FALSE
           filtered_df == SelectSeq([i \in 1..Len(df) |-> i],
                                    LAMBDA i : type_mask(df[i], pokemon_type, primary_only))
       IN
       IF ~HasColumns(df)
       THEN result' = Raised("aggregate_stats_by_type", arguments)
       ELSE IF filtered_df = <<>>
       THEN result' = [op |-> "aggregate_stats_by_type", args |-> arguments,
                       kind |-> "empty"]
       ELSE result' = [op |-> "aggregate_stats_by_type", args |-> arguments,
                       kind |-> "ok", pokemon_type |-> pokemon_type,
                       primary_only |-> primary_only,
                       filtered_df |-> filtered_df,
                       aggregations |->
                         [k \in DOMAIN aggregated_stats |->
                            aggregation(df, filtered_df, aggregated_stats[k])],
                       strongest |-> idxmax_of(df, filtered_df, "base_total")]
  /\ UNCHANGED <<df, _SORTED_CACHE, address, calls>>

(***************************************************************************)
(* utils/load_data.py: the table is loaded once, when the module is        *)
(* imported.  A CSV file is described by whether the path exists, whether  *)
(* read_csv can parse it, the columns of its header and its rows.  A cell  *)
(* left empty in the file is read as NaN.                                  *)
(***************************************************************************)
MaxCsvRows == 2

required_columns ==
  {"name", "pokedex_number", "type1", "hp", "attack", "defense",
   "sp_attack", "sp_defense", "speed", "base_total"}

\* the required columns of which the rows of the model carry the cells
required_cells(row) ==
  <<row.name, row.type1, row.hp, row.attack, row.defense,
    row.sp_attack, row.sp_defense, row.speed, row.base_total>>

PokedexRow(name) == CHOOSE row \in Pokedex : row.name = name

\* a row whose name cell is empty, and a row whose generation cell is empty
Unnamed == [PokedexRow("Mewtwo") EXCEPT !.name = NaN]

NoGeneration == [PokedexRow("pika") EXCEPT !.generation = NaNNum]

CsvRowChoices == {PokedexRow("Pika"), PokedexRow("Gyara"), Unnamed, NoGeneration}

CsvContents ==
  UNION {Orderings(S) : S \in {T \in SUBSET CsvRowChoices : Cardinality(T) <= MaxCsvRows}}

CsvHeaders ==
  {required_columns, required_columns \ {"hp"}, required_columns \ {"name", "base_total"}}

CsvFiles ==
  {[exists |-> e, parses |-> p, columns |-> c, rows |-> r] :
     e \in BOOLEAN, p \in BOOLEAN, c \in CsvHeaders, r \in CsvContents}

\* astype("int8"): a NaN cannot be cast and raises; an integer wraps to 8 bits
astype_int8_raises(rows, col) == \E i \in 1..Len(rows) : rows[i][col] = NaNNum

astype_int8(v) == ((v + 128) % 256) - 128

_optimize_raises(rows) ==
  astype_int8_raises(rows, "generation") \/ astype_int8_raises(rows, "is_legendary")

_optimize_dataframe(rows) ==
  [i \in 1..Len(rows) |->
     [rows[i] EXCEPT !.generation = astype_int8(@), !.is_legendary = astype_int8(@)]]

_validate_dataframe(columns, rows) ==
  /\ required_columns \subseteq columns
  /\ Len(rows) # 0

\* every way out of _load_statistics but the last returns pd.DataFrame()
_load_statistics(csv) ==
  IF ~csv.exists THEN <<>>
  ELSE IF ~csv.parses THEN <<>>
  ELSE IF ~_validate_dataframe(csv.columns, csv.rows) THEN <<>>
  ELSE IF _optimize_raises(csv.rows) THEN <<>>
  ELSE _optimize_dataframe(csv.rows)

(***************************************************************************)
(* get_sorted_df_cached, statement by statement, for calls that are under  *)
(* way at the same time.  The event loop runs a handler without await to   *)
(* its end, which is one of the schedules below; the steps are interleaved *)
(* freely, as a host that runs the handlers on threads would.              *)
(***************************************************************************)
Callers == 1..MaxCallers

NoEntry == [frame |-> <<>>, order |-> <<>>]

CachedStats == {"base_total", "speed"}

\* sort_values is a function of its input: which order it gives to equal
\* values is not specified, but the same frame and stat give the same order
\* each time, so a later sort agrees with every sort already made
sort_anew(d, stat) == sort_descending(d, stat)

sort_once(d, stat) ==
  {order \in sort_descending(d, stat) :
     /\ \A c \in DOMAIN calls :
          (calls[c].stat = stat /\ calls[c].value # NoEntry) => calls[c].value.order = order
     /\ <<id(d), stat>> \in DOMAIN _SORTED_CACHE => _SORTED_CACHE[<<id(d), stat>>].order = order}

\* a call reaches line 52 of get_sorted_df_cached
enter_get_sorted_df_cached ==
  /\ HasColumns(df)
  /\ \E c \in Callers \ DOMAIN calls, stat \in CachedStats :
       calls' = (c :> [pc |-> "test", stat |-> stat, value |-> NoEntry, returned |-> NoEntry])
                @@ calls
  /\ UNCHANGED <<df, result, _SORTED_CACHE, address>>

\* line 54: if cache_key not in _SORTED_CACHE
test_cache_key ==
  /\ \E c \in DOMAIN calls :
       /\ calls[c].pc = "test"
       /\ calls' = [calls EXCEPT ![c].pc =
                      IF <<id(df), calls[c].stat>> \in DOMAIN _SORTED_CACHE
                      THEN "return" ELSE "sort"]
  /\ UNCHANGED <<df, result, _SORTED_CACHE, address>>

\* line 55, right-hand side: the sorted copy is built in full
sort_values_reset_index ==
  /\ \E c \in DOMAIN calls :
       /\ calls[c].pc = "sort"
       /\ \E order \in sort_once(df, calls[c].stat) :
            calls' = [calls EXCEPT ![c].pc = "store",
                                   ![c].value = sorted_copy(df, order)]
  /\ UNCHANGED <<df, result, _SORTED_CACHE, address>>

\* line 55, assignment: the dict entry is set to the finished copy
store_cache_entry ==
  /\ \E c \in DOMAIN calls :
       /\ calls[c].pc = "store"
       /\ _SORTED_CACHE' = [k \in DOMAIN _SORTED_CACHE \cup {<<id(df), calls[c].stat>>} |->
                              IF k = <<id(df), calls[c].stat>> THEN calls[c].value
                              ELSE _SORTED_CACHE[k]]
       /\ calls' = [calls EXCEPT ![c].pc = "return"]
  /\ UNCHANGED <<df, result, address>>

\* line 59: return _SORTED_CACHE[cache_key]
return_cache_entry ==
  /\ \E c \in DOMAIN calls :
       /\ calls[c].pc = "return"
       /\ calls' = [calls EXCEPT ![c].pc = "done",
                                 ![c].returned = _SORTED_CACHE[<<id(df), calls[c].stat>>]]
  /\ UNCHANGED <<df, result, _SORTED_CACHE, address>>

\* the files found at the path when the table is loaded again: a file whose
\* first row is Pika, with or without the row of Gyara after it
ReloadFiles ==
  {csv \in CsvFiles :
     /\ csv.exists /\ csv.parses /\ csv.columns = required_columns
     /\ csv.rows # <<>>
     /\ csv.rows[1] = PokedexRow("Pika")
     /\ Range(csv.rows) \subseteq {PokedexRow("Pika"), PokedexRow("Gyara")}}

\* STATISTICS = _load_statistics() run again: the name is bound to a new
\* frame, built while the old one is still bound, so at another address; the
\* old frame is then unreferenced and its address is free for a later frame
reload_STATISTICS ==
  /\ result = Idle
  /\ \E csv \in ReloadFiles : df' = _load_statistics(csv)
  /\ address' \in Addresses \ {address}
  /\ UNCHANGED <<result, _SORTED_CACHE, calls>>

\* call_tool hands the tool's result back to the client; the server is then
\* ready for the next request
call_tool_return ==
  /\ result # Idle
  /\ result' = Idle
  /\ UNCHANGED <<df, _SORTED_CACHE, address, calls>>

Init ==
  /\ df \in Tables
  /\ result = Idle
  /\ _SORTED_CACHE = NoArgs
  /\ address = 1
  /\ calls = NoCalls

NextFilter ==
  \/ filter_pokemon_multi_criteria
  \/ call_tool_return

SpecFilter == Init /\ [][NextFilter]_vars

NextRank ==
  \/ calculate_stat_percentile
  \/ call_tool_return

SpecRank == Init /\ [][NextRank]_vars

\* tables that hold every row of the model, so that a record can have more
\* than three records above it or below it; the weakest row comes first and
\* the strongest last
InitNeighbours ==
  /\ df \in {p \in Orderings(Pokedex) : p[1].name = "Glitch" /\ p[Len(p)].name = "Mewtwo"}
  /\ result = Idle
  /\ _SORTED_CACHE = NoArgs
  /\ address = 1
  /\ calls = NoCalls

SpecNeighbours == InitNeighbours /\ [][NextRank]_vars

NextSimilar ==
  \/ find_similar_pokemon
  \/ call_tool_return

SpecSimilar == Init /\ [][NextSimilar]_vars

NextMatchup ==
  \/ get_resistances_and_weaknesses
  \/ call_tool_return

SpecMatchup == Init /\ [][NextMatchup]_vars

NextBst ==
  \/ calculate_bst_distribution
  \/ call_tool_return

SpecBst == Init /\ [][NextBst]_vars

NextCompare ==
  \/ compare_pokemon_head_to_head
  \/ call_tool_return

SpecCompare == Init /\ [][NextCompare]_vars

NextResist ==
  \/ find_pokemon_resistant_to_types
  \/ call_tool_return

SpecResist == Init /\ [][NextResist]_vars

NextEffectiveness ==
  \/ calculate_type_effectiveness
  \/ call_tool_return

SpecEffectiveness == Init /\ [][NextEffectiveness]_vars

NextAggregate ==
  \/ aggregate_stats_by_type
  \/ call_tool_return

SpecAggregate == Init /\ [][NextAggregate]_vars

\* import of utils.load_data: STATISTICS = _load_statistics(), then the server
\* answers every tool from that table
InitLoad ==
  \E csv \in CsvFiles :
    /\ df = _load_statistics(csv)
    /\ result = [op |-> "_load_statistics", args |-> NoArgs, csv |-> csv,
                 kind |-> IF _load_statistics(csv) = <<>> THEN "failed" ELSE "loaded"]
    /\ _SORTED_CACHE = NoArgs
    /\ address = 1
    /\ calls = NoCalls

NextLoad ==
  \/ filter_pokemon_multi_criteria
  \/ calculate_stat_percentile
  \/ find_similar_pokemon
  \/ get_resistances_and_weaknesses
  \/ calculate_bst_distribution
  \/ compare_pokemon_head_to_head
  \/ find_pokemon_resistant_to_types
  \/ calculate_type_effectiveness
  \/ aggregate_stats_by_type
  \/ get_pokemon_stats
  \/ call_tool_return

SpecLoad == InitLoad /\ [][NextLoad]_vars

NextStats ==
  \/ get_pokemon_stats
  \/ call_tool_return

SpecStats == Init /\ [][NextStats]_vars

NextCache ==
  \/ calculate_stat_percentile
  \/ reload_STATISTICS
  \/ call_tool_return

NextRace ==
  \/ enter_get_sorted_df_cached
  \/ test_cache_key
  \/ sort_values_reset_index
  \/ store_cache_entry
  \/ return_cache_entry

\* tables in which Pika and pika tie on every stat
RaceTables ==
  UNION {Orderings(S) :
           S \in {T \in SUBSET {PokedexRow("Pika"), PokedexRow("pika"), PokedexRow("Gyara")} :
                    T # {} /\ Cardinality(T) <= MaxRows}}

InitRace ==
  /\ df \in RaceTables
  /\ result = Idle
  /\ _SORTED_CACHE = NoArgs
  /\ address = 1
  /\ calls = NoCalls

SpecRace == InitRace /\ [][NextRace]_vars

InitCache ==
  \E csv \in ReloadFiles :
    /\ df = _load_statistics(csv)
    /\ result = Idle
    /\ _SORTED_CACHE = NoArgs
    /\ address = 1
    /\ calls = NoCalls

SpecCache == InitCache /\ [][NextCache]_vars

(***************************************************************************)
(* Claims about filter_pokemon_multi_criteria.                             *)
(***************************************************************************)
FilterReturned ==
  result.op = "filter_pokemon_multi_criteria" /\ result.kind \in {"ok", "empty"}

\* what each option asks of a record, stated from the option list of the tool
OptionTable ==
  { <<"type1", "type1", "same_text">>, <<"type2", "type2", "same_text">>,
    <<"min_hp", "hp", "at_least">>, <<"max_hp", "hp", "at_most">>,
    <<"min_attack", "attack", "at_least">>, <<"max_attack", "attack", "at_most">>,
    <<"min_defense", "defense", "at_least">>, <<"max_defense", "defense", "at_most">>,
    <<"min_sp_attack", "sp_attack", "at_least">>,
    <<"max_sp_attack", "sp_attack", "at_most">>,
    <<"min_sp_defense", "sp_defense", "at_least">>,
    <<"max_sp_defense", "sp_defense", "at_most">>,
    <<"min_speed", "speed", "at_least">>, <<"max_speed", "speed", "at_most">>,
    <<"min_base_total", "base_total", "at_least">>,
    <<"max_base_total", "base_total", "at_most">>,
    <<"min_weight_kg", "weight_kg", "at_least">>,
    <<"max_weight_kg", "weight_kg", "at_most">>,
    <<"min_height_m", "height_m", "at_least">>,
    <<"max_height_m", "height_m", "at_most">>,
    <<"generation", "generation", "equal">>,
    <<"is_legendary", "is_legendary", "flag">>,
    <<"min_capture_rate", "capture_rate", "at_least">>,
    <<"abilities", "abilities", "any_of">> }

\* an option is present when it is given with a non-empty value
OptionPresent(arguments, o) ==
  /\ o[1] \in DOMAIN arguments
  /\ o[3] = "same_text" => arguments[o[1]] # ""
  /\ o[3] = "any_of" => arguments[o[1]] # <<>>

OptionSatisfied(arguments, o, row) ==
  CASE o[3] = "same_text" -> row[o[2]] # NaN /\ Lower(row[o[2]]) = Lower(arguments[o[1]])
    [] o[3] = "at_least" -> row[o[2]] # NaNNum /\ row[o[2]] >= arguments[o[1]]
    [] o[3] = "at_most" -> row[o[2]] # NaNNum /\ row[o[2]] <= arguments[o[1]]
    [] o[3] = "equal" -> row[o[2]] = arguments[o[1]]
    [] o[3] = "flag" -> (row[o[2]] = 1) <=> arguments[o[1]]
    [] o[3] = "any_of" ->
         /\ ~row[o[2]].isna
         /\ \E a \in Range(row[o[2]].text), b \in Range(arguments[o[1]]) : Lower(a) = Lower(b)

MatchedSet(arguments) ==
  {i \in DOMAIN df :
     \A o \in OptionTable : OptionPresent(arguments, o) => OptionSatisfied(arguments, o, df[i])}

\* C1: the matched set is exactly the set of records satisfying every present
\* option (AND, bounds inclusive), and the count reported as found is the size
\* of that set before truncation to limit.
C1_MatchedIsConjunction ==
  FilterReturned =>
    /\ Range(result.filtered_df) = MatchedSet(result.args)
    /\ Len(result.filtered_df) = Cardinality(MatchedSet(result.args))
    /\ result.total_found = Cardinality(MatchedSet(result.args))
    /\ Range(result.records) \subseteq MatchedSet(result.args)

\* a call with a numeric bound that a matched record meets with equality, a
\* second option, and more records found than returned
C1_Witness ==
  /\ FilterReturned
  /\ result.kind = "ok"
  /\ result.total_found > Len(result.records)
  /\ Len(result.applied_filters) >= 1
  /\ \E o \in OptionTable :
       /\ o[3] = "at_least"
       /\ OptionPresent(result.args, o)
       /\ \E i \in Range(result.filtered_df) : df[i][o[2]] = result.args[o[1]]
  /\ Cardinality(MatchedSet(result.args)) < Len(df)

IsIdentityOrder(s, n) == s = [i \in 1..n |-> i]

SortedBy(s, col, ascending) ==
  \A i, j \in DOMAIN s :
    i < j => IF ascending THEN df[s[i]][col] <= df[s[j]][col]
                          ELSE df[s[i]][col] >= df[s[j]][col]

\* C2 as stated: the result is a subset of the table, and the empty
\* configuration returns every record of the table in the table's order.
C2_EmptyConfigReturnsTableInOrder ==
  FilterReturned =>
    /\ Range(result.records) \subseteq DOMAIN df
    /\ result.args = NoArgs => IsIdentityOrder(result.records, Len(df))

\* C2 amended: the result is always a subset of the table; a configuration
\* without filter options matches every record, in table order, and returns the
\* first `limit` (default 20) of them after sorting by the sort field (default
\* base_total, descending).
C2_EmptyConfigMatchesAllSortedTruncated ==
  FilterReturned =>
    /\ Range(result.records) \subseteq DOMAIN df
    /\ \A i, j \in DOMAIN result.records : i # j => result.records[i] # result.records[j]
    /\ result.applied_filters = <<>> =>
         /\ IsIdentityOrder(result.filtered_df, Len(df))
         /\ result.total_found = Len(df)
         /\ Len(result.records) = Min2(Len(df), IF "limit" \in DOMAIN result.args
                                                 THEN result.args["limit"] ELSE 20)
    /\ result.args = NoArgs => SortedBy(result.records, "base_total", FALSE)

\* the empty configuration on a table that is not sorted by base_total
C2_Witness ==
  /\ FilterReturned
  /\ result.args = NoArgs
  /\ Len(df) >= 2
  /\ ~IsIdentityOrder(result.records, Len(df))
  /\ Len(result.records) = Len(df)

(***************************************************************************)
(* Ranking                                                                 *)
(***************************************************************************)
PercentileReturned ==
  /\ result.op = "calculate_stat_percentile"
  /\ result.kind = "ok"

\* the record the call is about: the first row whose name matches the
\* requested one without regard to case
LocatedRecord ==
  CHOOSE i \in 1..Len(df) :
    /\ Lower(df[i].name) = Lower(result.args["pokemon_name"])
    /\ \A j \in 1..(i - 1) : Lower(df[j].name) # Lower(result.args["pokemon_name"])

IsDescendingPermutation(s, stat) ==
  /\ Len(s) = Len(df)
  /\ Range(s) = 1..Len(df)
  /\ \A i, j \in DOMAIN s : i < j => df[s[i]][stat] >= df[s[j]][stat]

SingleHighest(i, stat) ==
  \A j \in 1..Len(df) : j # i => df[j][stat] < df[i][stat]

\* C3: the rank returned is the 1-based position of the located record in
\* the table sorted descending by the stat, the percentile is exactly
\* (n - rank) / n * 100, and the single record with the highest base_total
\* gets rank 1 and percentile (n - 1) / n * 100.
C3_RankIsPositionInDescendingSort ==
  PercentileReturned =>
    LET n == Len(df) IN
    /\ result.total_pokemon = n
    /\ IsDescendingPermutation(result.sorted_df, result.stat)
    /\ result.rank \in 1..n
    /\ result.sorted_df[result.rank] = LocatedRecord
    /\ result.percentile.num * n = (n - result.rank) * 100 * result.percentile.den
    /\ (result.stat = "base_total" /\ SingleHighest(LocatedRecord, "base_total"))
         => /\ result.rank = 1
            /\ result.percentile.num * n = (n - 1) * 100 * result.percentile.den

C3_Witness ==
  /\ PercentileReturned
  /\ Len(df) = 3
  /\ result.stat = "base_total"
  /\ SingleHighest(LocatedRecord, "base_total")
  /\ LocatedRecord # 1
  /\ result.rank = 1
  /\ result.percentile = [num |-> 200, den |-> 3]

StrictlyBelow(i, stat) ==
  Cardinality({j \in 1..Len(df) : df[j][stat] < df[i][stat]})

\* C4: the percentile equals the share of the table's records whose value
\* for the stat is strictly below the record's value, times 100, ties
\* included.
C4_PercentileIsShareStrictlyBelow ==
  PercentileReturned =>
    result.percentile.num * Len(df) =
      StrictlyBelow(LocatedRecord, result.stat) * 100 * result.percentile.den

(***************************************************************************)
(* Similarity                                                              *)
(***************************************************************************)
SimilarReturned ==
  /\ result.op = "find_similar_pokemon"
  /\ result.kind = "ok"

SameNameRows ==
  {i \in 1..Len(df) : Lower(df[i].name) = Lower(result.args["pokemon_name"])}

\* C5: no returned record is the reference record or bears the requested
\* name (compared without regard to case), whatever the table, the
\* reference, the limit and the threshold.
C5_ReferenceNeverReturned ==
  SimilarReturned =>
    \A k \in DOMAIN result.records :
      /\ result.records[k] # result.reference_idx
      /\ result.records[k] \notin SameNameRows

C5_Witness ==
  /\ SimilarReturned
  /\ Cardinality(SameNameRows) = 2
  /\ \A i \in SameNameRows :
       similarity_ge(result.similarity_scores[i], result.min_similarity)
  /\ Len(result.records) = 1
  /\ "limit" \notin DOMAIN result.args

SimilarComputed ==
  /\ result.op = "find_similar_pokemon"
  /\ result.kind \in {"ok", "error"}
  /\ "similarity_scores" \in DOMAIN result

IsLargest(m, distances) ==
  /\ m \in Range(distances)
  /\ \A i \in DOMAIN distances :
       distances[i].num * m.den <= m.num * distances[i].den

\* C6: with m the largest distance of the call, every score s satisfies
\* 1 - s = distance / m (compared on the squares) and 0 <= s <= 1; when m
\* is 0 every score is 1.
C6_SimilarityIsNormalizedDistance ==
  SimilarComputed =>
    \A m \in {x \in Range(result.distances) : IsLargest(x, result.distances)} :
      \A i \in DOMAIN result.similarity_scores :
        LET q == result.similarity_scores[i]
            dist == result.distances[i]
        IN /\ Len(result.similarity_scores) = Len(df)
           /\ q.den > 0
           /\ 0 <= q.num /\ q.num <= q.den
           /\ m.num > 0 => q.num * dist.den * m.num = q.den * dist.num * m.den
           /\ m.num = 0 => q.num = 0

C6_Witness ==
  /\ SimilarReturned
  /\ Len(df) = 3
  /\ result.reference_idx = 2
  /\ \E i, j \in DOMAIN result.similarity_scores :
       /\ result.similarity_scores[i].num = result.similarity_scores[i].den
       /\ 0 < result.similarity_scores[j].num
       /\ result.similarity_scores[j].num < result.similarity_scores[j].den
  /\ result.similarity_scores[2].num = 0

(***************************************************************************)
(* Matchups                                                                *)
(***************************************************************************)
MatchupsReturned ==
  /\ result.op = "get_resistances_and_weaknesses"
  /\ result.kind = "ok"

BucketsHolding(poke_type) ==
  {c \in Range(Categories) : poke_type \in Range(result.matchups[c])}

\* C7: each of the 18 types is in exactly one of the six buckets, and the
\* sizes of the buckets add up to 18.
C7_BucketsPartitionAllTypes ==
  MatchupsReturned =>
    /\ \A k \in DOMAIN ALL_TYPES : Cardinality(BucketsHolding(ALL_TYPES[k])) = 1
    /\ SumSeq([k \in DOMAIN Categories |-> Len(result.matchups[Categories[k]])]) = 18

InSet(multiplier) == multiplier \in {0, 1, 2, 4, 8} \/ multiplier >= 16

\* C8: a query about a defender that has a multiplier outside
\* {0, 0.25, 0.5, 1, 2, >= 4} does not return a categorization.
C8_OutOfSetMultiplierIsAnError ==
  MatchupsReturned =>
    \A t \in DOMAIN df[result.pokemon_row].against :
      InSet(df[result.pokemon_row].against[t])

(***************************************************************************)
(* Distribution                                                            *)
(***************************************************************************)
DistributionReturned ==
  /\ result.op = "calculate_bst_distribution"
  /\ result.kind = "ok"

\* the rows the distribution is about, recomputed from the arguments
FilteredPopulation ==
  {i \in 1..Len(df) :
     \/ "include_legendaries" \notin DOMAIN result.args
     \/ result.args["include_legendaries"]
     \/ df[i].is_legendary = 0}

NonEmptyBins == {k \in DOMAIN result.distribution : result.distribution[k] > 0}

\* C9: the counts of the bins add up to the size of the filtered
\* population, each percentage is count / population * 100 at the precision
\* of one decimal, and the percentages add up to 100 within 0.5 per bin.
C9_CountsAndPercentagesAddUp ==
  DistributionReturned =>
    LET total == Cardinality(FilteredPopulation) IN
    /\ result.total_pokemon = total
    /\ SumSeq(result.distribution) = total
    /\ \A k \in DOMAIN result.distribution :
         2 * Abs(result.percentage[k] * total - result.distribution[k] * 1000) <= total
    /\ Abs(SumSeq(result.percentage) - 1000) <= 5 * Cardinality(NonEmptyBins)

C9_Witness ==
  /\ DistributionReturned
  /\ Cardinality(FilteredPopulation) = 3
  /\ Cardinality(NonEmptyBins) = 3
  /\ Len(result.distribution) > 3
  /\ \A k \in NonEmptyBins : result.percentage[k] = 333
  /\ SumSeq(result.percentage) = 999

CountWhere(P(_)) == Cardinality({i \in FilteredPopulation : P(df[i].base_total)})

\* C10 as stated: bin k counts the records whose base_total lies in
\* [k * bin_size, (k + 1) * bin_size), a total on an edge belonging to the
\* bin that starts there.
C10_BinsAreLeftClosed ==
  DistributionReturned =>
    \A k \in DOMAIN result.distribution :
      result.distribution[k] =
        CountWhere(LAMBDA v : /\ (k - 1) * result.bin_size <= v
                              /\ v < k * result.bin_size)

ScenarioTotals ==
  /\ Len(result.filtered_df) = 3
  /\ {df[i].base_total : i \in FilteredPopulation} = {320, 450, 610}
  /\ result.bin_size = 100

\* C10 amended: bin k counts the records whose base_total lies in
\* ((k - 1) * bin_size, k * bin_size] (the first bin holding 0 as well), a
\* total on an edge belonging to the bin that ends there; totals
\* [320, 450, 610] with bin size 100 give one record in each of the bins
\* ending at 400, 500 and 700 and none elsewhere.
C10_BinsAreRightClosed ==
  DistributionReturned =>
    /\ \A k \in DOMAIN result.distribution :
         result.distribution[k] =
           CountWhere(LAMBDA v : /\ v <= k * result.bin_size
                                 /\ \/ (k - 1) * result.bin_size < v
                                    \/ k = 1 /\ v = 0)
    /\ ScenarioTotals => result.distribution = <<0, 0, 0, 1, 1, 0, 1>>

C10_Witness ==
  /\ DistributionReturned
  /\ result.bin_size = 100
  /\ \E i \in FilteredPopulation : df[i].base_total = 300
  /\ Len(result.distribution) >= 4
  /\ result.distribution[3] = 1
  /\ result.distribution[4] = 1

(***************************************************************************)
(* Comparison                                                              *)
(***************************************************************************)
CompareReturned ==
  /\ result.op = "compare_pokemon_head_to_head"
  /\ result.kind = "ok"

RecordA == df[result.p1_row]
RecordB == df[result.p2_row]

TiedStats ==
  {k \in DOMAIN stats_cols : result.stat_comparisons[k].winner = "Tie"}

\* C11: on each of the six stats A is the winner iff its value is strictly
\* greater, B iff its value is strictly greater, otherwise the stat is a tie
\* that adds to neither win count; wins of A + wins of B + ties = 6, and
\* equal speeds give a tie on speed.
C11_OneOutcomePerStat ==
  CompareReturned =>
    LET a_won == {k \in DOMAIN stats_cols : RecordA[stats_cols[k]] > RecordB[stats_cols[k]]}
        b_won == {k \in DOMAIN stats_cols : RecordB[stats_cols[k]] > RecordA[stats_cols[k]]}
    IN
    /\ Len(result.stat_comparisons) = 6
    /\ \A k \in DOMAIN stats_cols :
         LET c == result.stat_comparisons[k] IN
         /\ c.stat = stats_cols[k]
         /\ k \in a_won => c.winner = RecordA.name
         /\ k \in b_won => c.winner = RecordB.name
         /\ k \notin a_won \cup b_won <=> c.winner = "Tie"
    /\ result.p1_wins = Cardinality(a_won)
    /\ result.p2_wins = Cardinality(b_won)
    /\ result.p1_wins + result.p2_wins + Cardinality(TiedStats) = 6
    /\ RecordA.speed = RecordB.speed => result.stat_comparisons[6].winner = "Tie"

C11_Witness ==
  /\ CompareReturned
  /\ result.p1_row # result.p2_row
  /\ RecordA.speed = RecordB.speed
  /\ result.stat_comparisons[6].winner = "Tie"
  /\ result.p1_wins = 3
  /\ result.p2_wins = 0
  /\ Cardinality(TiedStats) = 3

\* the Matchup Engine's best multiplier for an attacker's types
BestEffectiveness(attacker, defender) ==
  max_seq([k \in DOMAIN types_of(attacker) |->
             get_type_effectiveness(defender, Lower(types_of(attacker)[k]))])

\* C18: the best multiplier reported for A attacking B is the maximum over
\* A's types of get_type_effectiveness against B, and likewise for B
\* attacking A, each read from the defender's own fields.
C18_BestMultiplierIsMaxEffectiveness ==
  CompareReturned =>
    /\ result.p1_vs_p2_mult = BestEffectiveness(RecordA, RecordB)
    /\ result.p2_vs_p1_mult = BestEffectiveness(RecordB, RecordA)

(***************************************************************************)
(* Reverse resistance search                                               *)
(***************************************************************************)
ResistReturned ==
  /\ result.op = "find_pokemon_resistant_to_types"
  /\ result.kind = "ok"

\* the records at most max_multiplier for every requested type
ResistantRows ==
  {i \in 1..Len(df) :
     \A k \in DOMAIN result.resist_types_lower :
       df[i].against[result.resist_types_lower[k]] <= result.max_multiplier}

MeanTimesFour(i) ==
  SumSeq([k \in DOMAIN result.resist_types_lower |->
            df[i].against[result.resist_types_lower[k]]])

\* C12: the records returned are the first `limit` of the records that are
\* at most max_multiplier on every requested type, in ascending order of the
\* mean of those multipliers, the mean being reported as the score; for
\* [fire], 0.5 and a single such record with against_fire = 0.25 exactly
\* that record is returned with score 0.25.
C12_ResistantToEveryTypeByMean ==
  ResistReturned =>
    LET n == Len(result.resist_types_lower) IN
    /\ Range(result.records) \subseteq ResistantRows
    /\ Len(result.records) = Min2(result.limit, Cardinality(ResistantRows))
    /\ \A i, j \in DOMAIN result.records : i # j => result.records[i] # result.records[j]
    /\ \A i, j \in DOMAIN result.records :
         i < j => MeanTimesFour(result.records[i]) <= MeanTimesFour(result.records[j])
    /\ \A k \in DOMAIN result.records :
         \A x \in ResistantRows \ Range(result.records) :
           MeanTimesFour(result.records[k]) <= MeanTimesFour(x)
    /\ \A k \in DOMAIN result.records :
         result.resistance_score[k].num * 4 * n
           = MeanTimesFour(result.records[k]) * result.resistance_score[k].den
    /\ (/\ result.resist_types_lower = <<"fire">>
        /\ result.max_multiplier = 2
        /\ \E i \in 1..Len(df) : ResistantRows = {i} /\ df[i].against["fire"] = 1)
         => /\ Len(result.records) = 1
            /\ result.records[1] \in ResistantRows
            /\ result.resistance_score[1] = [num |-> 1, den |-> 4]

C12_Witness ==
  /\ ResistReturned
  /\ Len(df) = 3
  /\ result.resist_types_lower = <<"fire", "water">>
  /\ Cardinality(ResistantRows) = 2
  /\ Len(result.records) = 2
  /\ result.resistance_score[1] = [num |-> 3, den |-> 8]
  /\ FracLeq(result.resistance_score[1], result.resistance_score[2])
  /\ result.resistance_score[1] # result.resistance_score[2]

(***************************************************************************)
(* Type effectiveness                                                      *)
(***************************************************************************)
EffectivenessReturned ==
  /\ result.op = "calculate_type_effectiveness"
  /\ result.kind = "ok"

\* the defender's field for an attacking type, neutral when it has none
FieldOrNeutral(attacker_type) ==
  IF Lower(attacker_type) \in DOMAIN df[result.defender_row].against
  THEN df[result.defender_row].against[Lower(attacker_type)]
  ELSE 4

LargestField ==
  CHOOSE v \in {FieldOrNeutral(result.attacker_types[k]) : k \in DOMAIN result.attacker_types} :
    \A k \in DOMAIN result.attacker_types : FieldOrNeutral(result.attacker_types[k]) <= v

\* C13: for one or two attacking types each multiplier is the defender's
\* against field (1.0 when the field is missing), and the verdict is immune
\* when the largest multiplier is 0, super_effective when it is >= 2.0,
\* not_very_effective when it is < 1.0 and not 0, neutral otherwise.
C13_VerdictFromLargestMultiplier ==
  (EffectivenessReturned /\ Len(result.attacker_types) \in {1, 2}) =>
    /\ \A k \in DOMAIN result.attacker_types :
         result.effectiveness_results[k] = FieldOrNeutral(result.attacker_types[k])
    /\ result.verdict \in {"immune", "super_effective", "not_very_effective", "neutral"}
    /\ result.verdict = "immune" <=> LargestField = 0
    /\ result.verdict = "super_effective" <=> LargestField >= 8
    /\ result.verdict = "not_very_effective" <=> (LargestField < 4 /\ LargestField # 0)
    /\ result.verdict = "neutral" <=> (LargestField >= 4 /\ LargestField < 8)

C13_Witness ==
  /\ EffectivenessReturned
  /\ result.attacker_types = <<"ground", "Electric">>
  /\ result.effectiveness_results = <<8, 2>>
  /\ result.verdict = "super_effective"

(***************************************************************************)
(* Ordering of the filter's result                                         *)
(***************************************************************************)
RequestedSortField ==
  IF "sort_by" \in DOMAIN result.args THEN result.args["sort_by"] ELSE "base_total"

RequestedAscending ==
  IF "ascending" \in DOMAIN result.args THEN result.args["ascending"] ELSE FALSE

RequestedLimit ==
  IF "limit" \in DOMAIN result.args THEN result.args["limit"] ELSE 20

\* the rows of s ordered by col, rows that tie on col in table order
StableOrder(s, col, ascending) ==
  CHOOSE p \in Orderings(Range(s)) :
    \A i, j \in DOMAIN p :
      i < j => \/ /\ ascending
                  /\ df[p[i]][col] < df[p[j]][col]
               \/ /\ ~ascending
                  /\ df[p[i]][col] > df[p[j]][col]
               \/ /\ df[p[i]][col] = df[p[j]][col]
                  /\ p[i] < p[j]

\* C14: the matched records are ordered by the requested sort field
\* (default base_total), descending unless ascending is requested, records
\* that tie staying in table order, and the first `limit` (default 20) of
\* that order are returned.
C14_SortedStableThenTruncated ==
  (FilterReturned /\ RequestedSortField \in {"base_total", "speed"}) =>
    result.records =
      SubSeq(StableOrder(result.filtered_df, RequestedSortField, RequestedAscending),
             1, Min2(RequestedLimit, Len(result.filtered_df)))

\* C15: with a sort_by that names no column the call succeeds and its
\* result is ordered by base_total, as without sort_by.
C15_UnknownSortFieldFallsBack ==
  (/\ result.op = "filter_pokemon_multi_criteria"
   /\ result.kind # "none"
   /\ Len(df) > 0
   /\ "sort_by" \in DOMAIN result.args
   /\ result.args["sort_by"] = "foo") =>
    /\ result.kind \in {"ok", "empty"}
    /\ SortedBy(result.records, "base_total", RequestedAscending)

(***************************************************************************)
(* Ordering of the similar records                                         *)
(***************************************************************************)
\* the records other than the reference's that reach the threshold
KeptSimilar ==
  {i \in 1..Len(df) :
     /\ i \notin SameNameRows
     /\ similarity_ge(result.similarity_scores[i], result.min_similarity)}

\* KeptSimilar by similarity descending, equal similarities in table order
StableSimilarOrder ==
  CHOOSE p \in Orderings(KeptSimilar) :
    \A i, j \in DOMAIN p :
      i < j =>
        LET qi == result.similarity_scores[p[i]]
            qj == result.similarity_scores[p[j]]
        IN \/ qi.num * qj.den < qj.num * qi.den
           \/ qi = qj /\ p[i] < p[j]

SimilarLimit ==
  IF "limit" \in DOMAIN result.args THEN result.args["limit"] ELSE 5

\* C16: the records returned are the first `limit` of the non-reference
\* records with similarity >= min_similarity, in descending order of
\* similarity, equal similarities staying in table order.
C16_SimilarSortedStableThenTruncated ==
  SimilarReturned =>
    result.records =
      SubSeq(StableSimilarOrder, 1, Min2(SimilarLimit, Cardinality(KeptSimilar)))

(***************************************************************************)
(* Aggregation by type                                                     *)
(***************************************************************************)
AggregateReturned ==
  /\ result.op = "aggregate_stats_by_type"
  /\ result.kind = "ok"

RequestedType ==
  IF "pokemon_type" \in DOMAIN result.args THEN Lower(result.args["pokemon_type"]) ELSE ""

PrimaryOnly ==
  IF "primary_only" \in DOMAIN result.args THEN result.args["primary_only"] ELSE FALSE

OfRequestedType ==
  {i \in 1..Len(df) :
     IF PrimaryOnly THEN df[i].type1 = RequestedType
     ELSE df[i].type1 = RequestedType \/ df[i].type2 = RequestedType}

\* C17: the filtered set is the records of the type by type1 alone when
\* primary_only is true, by type1 or type2 otherwise; the strongest is a
\* record of maximum base_total in that set, the first in the table among
\* those that share the maximum.
C17_StrongestIsFirstMaximum ==
  AggregateReturned =>
    /\ Range(result.filtered_df) = OfRequestedType
    /\ result.strongest \in OfRequestedType
    /\ \A j \in OfRequestedType :
         /\ df[j].base_total <= df[result.strongest].base_total
         /\ df[j].base_total = df[result.strongest].base_total => result.strongest <= j

C17_Witness ==
  /\ AggregateReturned
  /\ PrimaryOnly
  /\ \E i \in 1..Len(df) : df[i].type2 = RequestedType
  /\ Cardinality(OfRequestedType) = 2
  /\ \A j \in OfRequestedType : df[j].base_total = df[result.strongest].base_total
  /\ df[result.strongest].name = "pika"

(***************************************************************************)
(* Claims about the load of the table.                                     *)
(***************************************************************************)
Queried == result.op \notin {"none", "_load_statistics"}

\* C19: after a failed load the table is empty, and no query on it raises:
\* each one returns a payload
C19_QueriesOnFailedLoadDoNotRaise ==
  (df = <<>> /\ Queried) => result.kind # "raise"

JustLoaded == result.op = "_load_statistics"

NonEmptyCell(v) == v # NaN /\ v # NaNNum

C21_NoResultsIsAPayload ==
  /\ (result.op = "filter_pokemon_multi_criteria" /\ MatchedSet(result.args) = {})
       => result.kind = "empty"
  /\ (result.op = "aggregate_stats_by_type" /\ OfRequestedType = {})
       => result.kind = "empty"

\* the records a filter call matched, as a table of their own
MatchedTable == [k \in 1..Len(result.filtered_df) |-> df[result.filtered_df[k]]]

\* C22: filtering is idempotent: the configuration of a call, applied to the
\* records that call matched, keeps every one of them
C22_FilteringIsIdempotent ==
  FilterReturned =>
    positions_where(MatchedTable, result.args, 1) = [k \in 1..Len(MatchedTable) |-> k]

\* a call with two filter options that matched some records and dropped others
C22_Witness ==
  /\ FilterReturned
  /\ Len(result.applied_filters) >= 2
  /\ Len(MatchedTable) >= 2
  /\ Len(MatchedTable) < Len(df)

(***************************************************************************)
(* Claims about the cache of sorted tables.                                *)
(***************************************************************************)
\* C23: whatever queries and reloads came before, the sorted table a
\* percentile query works on is the table of that call sorted descending by
\* the stat, never the sorted copy of a table loaded earlier
C23_SortedOrderIsOfCurrentTable ==
  PercentileReturned =>
    /\ Len(result.sorted_rows) = Len(df)
    /\ Range(result.sorted_rows) = Range(df)
    /\ \A i, j \in DOMAIN result.sorted_rows :
         i < j => result.sorted_rows[i][result.stat] >= result.sorted_rows[j][result.stat]

CompleteSort(entry, stat) ==
  /\ entry.frame = df
  /\ IsDescendingPermutation(entry.order, stat)

Returned(c) == c \in DOMAIN calls /\ calls[c].pc = "done"

C25_ToolsLeaveTheTableAsLoaded == [][df' = df]_vars

\* the resistant-type search has returned records of a loaded table, after
\* adding the resistance_score column to its working frame
C25_Witness ==
  /\ HasColumns(df)
  /\ result.op = "find_pokemon_resistant_to_types" /\ result.kind = "ok"
  /\ Len(result.records) >= 2

(***************************************************************************)
(* Further claims about ranking.                                           *)
(***************************************************************************)
\* C26: the table is sorted descending by the stat with ties in table
\* order, so that of two records with equal values the one earlier in the
\* table has the smaller rank
C26_RankingTiesKeepTableOrder ==
  PercentileReturned =>
    \A i, j \in DOMAIN result.sorted_df :
      (i < j /\ df[result.sorted_df[i]][result.stat] = df[result.sorted_df[j]][result.stat])
        => result.sorted_df[i] < result.sorted_df[j]

(***************************************************************************)
(* Claims about the order of validation and work.                          *)
(***************************************************************************)
UnknownName(arguments) ==
  \A i \in 1..Len(df) : Lower(df[i].name) # Lower(arg_pokemon_name(arguments))

UnknownStat(arguments) ==
  arg_stat(arguments) \notin numeric_columns \cup text_columns

UnknownType(arguments) ==
  /\ "resist_types" \in DOMAIN arguments
  /\ \E k \in DOMAIN arguments["resist_types"] :
       \A i \in 1..Len(df) : Lower(arguments["resist_types"][k]) \notin DOMAIN df[i].against

PercentileFailsValidation ==
  /\ result = Idle
  /\ result'.op = "calculate_stat_percentile"
  /\ UnknownName(result'.args) \/ UnknownStat(result'.args)

ResistFailsValidation ==
  /\ result = Idle
  /\ result'.op = "find_pokemon_resistant_to_types"
  /\ UnknownType(result'.args)

\* C27: a percentile call with an unknown name or an unknown stat ends
\* without a sort and with the cache as it was, with the error payload when
\* the table has its columns; a resistant-type search with an unknown type
\* ends with the invalid-type error and no record filtered
C27_ValidationComesBeforeWork ==
  [][ /\ PercentileFailsValidation =>
           /\ _SORTED_CACHE' = _SORTED_CACHE
           /\ "sorted_df" \notin DOMAIN result'
           /\ HasColumns(df) => result'.kind = "error"
      /\ ResistFailsValidation =>
           /\ result'.kind = "error"
           /\ result'.error = "invalid_types"
           /\ "records" \notin DOMAIN result' ]_vars

\* a call with a known name and an unknown stat has returned the error while
\* the cache is still empty
C27_Witness ==
  /\ result.op = "calculate_stat_percentile"
  /\ result.kind = "error"
  /\ result.error = "stat_not_found"
  /\ ~UnknownName(result.args)
  /\ HasColumns(df)
  /\ _SORTED_CACHE = NoArgs

\* C28: the records returned as ranked above are those at the min(3, rank-1)
\* positions just before the record in the sorted table, those returned as
\* ranked below are at the min(3, n-rank) positions just after it; the
\* record itself is in neither list and every position is inside the table
C28_NeighboursAreUpToThreeEachSide ==
  PercentileReturned =>
    LET n == result.total_pokemon
        above == Min2(3, result.rank - 1)
        below == Min2(3, n - result.rank)
    IN
    /\ result.higher_pokemon =
         [k \in 1..above |-> result.sorted_df[result.rank - above + k - 1]]
    /\ result.lower_pokemon =
         [k \in 1..below |-> result.sorted_df[result.rank + k]]
    /\ result.sorted_df[result.rank] \notin
         Range(result.higher_pokemon) \cup Range(result.lower_pokemon)
    /\ Range(result.higher_pokemon) \cup Range(result.lower_pokemon) \subseteq 1..Len(df)

\* the record ranked last of five: four records are above it, three are
\* returned, none below
C28_Witness ==
  /\ PercentileReturned
  /\ result.total_pokemon = 5
  /\ result.rank = 5
  /\ Len(result.higher_pokemon) = 3
  /\ result.lower_pokemon = <<>>

(***************************************************************************)
(* Further claims about find_pokemon_resistant_to_types.                   *)
(***************************************************************************)
\* C29: every record returned has a resistance score, the mean of its
\* multipliers over the requested types, at most max_multiplier; none of its
\* requested multipliers is above max_multiplier; and at most `limit`
\* records are returned
C29_ScoresAndCountAreBounded ==
  ResistReturned =>
    /\ \A k \in DOMAIN result.records :
         /\ FracLeq(result.resistance_score[k], [num |-> result.max_multiplier, den |-> 4])
         /\ result.resistance_score[k].num * 4 * Len(result.resist_types_lower)
              = MeanTimesFour(result.records[k]) * result.resistance_score[k].den
         /\ \A t \in Range(result.resist_types_lower) :
              df[result.records[k]].against[t] <= result.max_multiplier
    /\ Len(result.records) <= result.limit

\* a search over two types with limit 1 on a table with several resistant
\* records: the one returned has two different multipliers
C29_Witness ==
  /\ ResistReturned
  /\ Len(result.resist_types_lower) = 2
  /\ result.limit = 1
  /\ Len(result.records) = 1
  /\ Cardinality(ResistantRows) >= 2
  /\ df[result.records[1]].against[result.resist_types_lower[1]]
       # df[result.records[1]].against[result.resist_types_lower[2]]

(***************************************************************************)
(* Claims about the two matchup categorizers.                              *)
(***************************************************************************)
StatsReturned ==
  /\ result.op = "get_pokemon_stats"
  /\ result.kind = "ok"
  /\ result.show_detailed

\* the one type that the two lists of types name differently
SameType(t) == IF t = "fight" THEN "fighting" ELSE t

Listed(list) == {SameType(result.matchups[list][k].type) : k \in DOMAIN result.matchups[list]}

Bucketed(categories, bucket) == {SameType(t) : t \in Range(categories[bucket])}

\* C30: for the record get_pokemon_stats describes, get_type_matchups lists a
\* type as an immunity, a resistance or a weakness exactly when
\* categorize_matchups puts that type in the immunities, in one of the two
\* resistance buckets or in one of the two weakness buckets
C30_CategorizersAgree ==
  StatsReturned =>
    LET categories == categorize_matchups(df[result.pokemon]) IN
    /\ Listed("immunities") = Bucketed(categories, "immunities")
    /\ Listed("resistances") =
         Bucketed(categories, "ultra_resistances") \cup Bucketed(categories, "resistances")
    /\ Listed("weaknesses") =
         Bucketed(categories, "weaknesses") \cup Bucketed(categories, "ultra_weaknesses")

====
